---- MODULE Spec2Model ----
(***************************************************************************)
(* Design-diff analysis pipeline of recapme: diffFiles (src/src/diff.ts),   *)
(* groupChangesSemanticaly (analysis/semantic-grouper),                     *)
(* assessComponentReadiness / assessAllFeatures (analysis/readiness) and    *)
(* matchFeaturesToTickets (src/src/analysis/ticket-matcher.ts).             *)
(*                                                                         *)
(* JavaScript strings are sequences of one-character strings, so that      *)
(* toLowerCase, includes, split, join and the regular expressions of the   *)
(* source are computed character by character.                             *)
(***************************************************************************)
EXTENDS Integers, Sequences, FiniteSets, TLC

VARIABLES pc, oldFile, newFile, oldVersion, newVersion, diffResult, semanticDiff,
          readinessAssessments, tickets, figmaFileKey, ticketMatches

vars == <<pc, oldFile, newFile, oldVersion, newVersion, diffResult, semanticDiff,
          readinessAssessments, tickets, figmaFileKey, ticketMatches>>

\* JavaScript values carry their typeof tag; undefined is also the value of a
\* pipeline variable that has not been assigned yet.
Undefined == [t |-> "undefined"]

Null == [t |-> "null"]

Str(s) == [t |-> "string", v |-> s]

Num(n) == [t |-> "number", v |-> n]

Bool(b) == [t |-> "boolean", v |-> b]

\* an object literal: f maps property names to values
Obj(f) == [t |-> "object", v |-> f]

\* an array: a is the sequence of its elements
Arr(a) == [t |-> "array", v |-> a]

\* obj.key of an object whose optional properties may be missing
Get(obj, key) == IF key \in DOMAIN obj THEN obj[key] ELSE Undefined

\* JavaScript truthiness, as tested by `if (x)`, `x && ...` and `x || ...`
Truthy(x) ==
    CASE x.t = "undefined" -> FALSE
      [] x.t = "null" -> FALSE
      [] x.t = "string" -> x.v # <<>>
      [] x.t = "number" -> x.v # 0
      [] x.t = "boolean" -> x.v
      [] OTHER -> TRUE

\* the characters of a string literal
Chars(s) == [i \in 1..Len(s) |-> SubSeq(s, i, i)]

\* `const x = value; ... x ... x ...`: the value is computed once and the
\* body reads it as often as it likes
With(value, Body(_)) == CHOOSE r \in {Body(x) : x \in {value}} : TRUE

----------------------------------------------------------------------------
(* Characters and strings *)

\* the lower-case letter of every upper-case letter
LowerCaseOf ==
    [ A |-> "a", B |-> "b", C |-> "c", D |-> "d", E |-> "e", F |-> "f",
      G |-> "g", H |-> "h", I |-> "i", J |-> "j", K |-> "k", L |-> "l",
      M |-> "m", N |-> "n", O |-> "o", P |-> "p", Q |-> "q", R |-> "r",
      S |-> "s", T |-> "t", U |-> "u", V |-> "v", W |-> "w", X |-> "x",
      Y |-> "y", Z |-> "z" ]

UpperCaseLetters == DOMAIN LowerCaseOf

LowerCaseLetters ==
    {"a", "b", "c", "d", "e", "f", "g", "h", "i", "j", "k", "l", "m",
     "n", "o", "p", "q", "r", "s", "t", "u", "v", "w", "x", "y", "z"}

DigitChars == {"0", "1", "2", "3", "4", "5", "6", "7", "8", "9"}

WhitespaceChars == {" ", "\t", "\n"}

IsUpper(c) == c \in UpperCaseLetters

IsLower(c) == c \in LowerCaseLetters

IsLetter(c) == IsUpper(c) \/ IsLower(c)

IsDigit(c) == c \in DigitChars

IsSpace(c) == c \in WhitespaceChars

\* \w of a JavaScript regular expression
IsWordChar(c) == IsLetter(c) \/ IsDigit(c) \/ c = "_"

toLowerCaseChar(c) == IF IsUpper(c) THEN LowerCaseOf[c] ELSE c

\* String.prototype.toLowerCase
toLowerCase(s) == [i \in 1..Len(s) |-> toLowerCaseChar(s[i])]

\* s.slice(from) with a 1-based first index
Drop(s, from) == SubSeq(s, from, Len(s))

\* the string t occurs in s at (1-based) position i
MatchesAt(s, t, i) ==
    /\ i >= 1
    /\ i + Len(t) - 1 <= Len(s)
    /\ \A k \in 1..Len(t) : s[i + k - 1] = t[k]

\* String.prototype.includes
includes(s, t) == \E i \in 1..(Len(s) + 1) : MatchesAt(s, t, i)

\* String.prototype.startsWith
startsWith(s, t) == MatchesAt(s, t, 1)

\* String.prototype.split with a one-character separator
RECURSIVE split(_, _)
split(s, sep) ==
    IF \E i \in 1..Len(s) : s[i] = sep
    THEN LET i == CHOOSE k \in 1..Len(s) :
                      s[k] = sep /\ \A j \in 1..(k - 1) : s[j] # sep
         IN  <<SubSeq(s, 1, i - 1)>> \o split(Drop(s, i + 1), sep)
    ELSE <<s>>

\* Array.prototype.join
RECURSIVE join(_, _)
join(parts, sep) ==
    IF Len(parts) = 0 THEN <<>>
    ELSE IF Len(parts) = 1 THEN parts[1]
    ELSE parts[1] \o sep \o join(Tail(parts), sep)

\* String.prototype.trim
RECURSIVE trimStart(_)
trimStart(s) ==
    IF Len(s) > 0 /\ IsSpace(s[1]) THEN trimStart(Tail(s)) ELSE s

RECURSIVE trimEnd(_)
trimEnd(s) ==
    IF Len(s) > 0 /\ IsSpace(s[Len(s)])
    THEN trimEnd(SubSeq(s, 1, Len(s) - 1))
    ELSE s

trim(s) == trimEnd(trimStart(s))

\* the elements of an array, as a set (new Set(array), ignoring order)
Range(s) == {s[i] : i \in 1..Len(s)}

\* [...new Set(array)]: first occurrences, in order
RECURSIVE Dedupe(_)
Dedupe(s) ==
    IF Len(s) = 0 THEN <<>>
    ELSE With(Dedupe(SubSeq(s, 1, Len(s) - 1)), LAMBDA front :
            IF s[Len(s)] \in Range(front) THEN front ELSE Append(front, s[Len(s)]))

\* the least element of a non-empty set of numbers
Least(S) == With(S, LAMBDA numbers : CHOOSE i \in numbers : \A j \in numbers : i <= j)

----------------------------------------------------------------------------
(* Exact rational numbers <<numerator, denominator>> for the matcher scores *)

RECURSIVE GCD(_, _)
GCD(a, b) == IF b = 0 THEN a ELSE GCD(b, a % b)

Rat(n, d) == LET g == GCD(n, d) IN IF g = 0 THEN <<0, 1>> ELSE <<n \div g, d \div g>>

RatAdd(x, y) == Rat(x[1] * y[2] + y[1] * x[2], x[2] * y[2])

RatMul(x, y) == Rat(x[1] * y[1], x[2] * y[2])

RatGT(x, y) == x[1] * y[2] > y[1] * x[2]

RatGE(x, y) == x[1] * y[2] >= y[1] * x[2]

\* Math.round of a non-negative rational
RoundRat(x) == (2 * x[1] + x[2]) \div (2 * x[2])

\* Math.max
Max(a, b) == IF a >= b THEN a ELSE b

\* Math.min
Min(a, b) == IF a <= b THEN a ELSE b

----------------------------------------------------------------------------
(* Diff engine: src/src/diff.ts *)

\* [f(s[1]), f(s[2]), ...]: array.map
Map(s, f(_)) == With(s, LAMBDA array : [i \in 1..Len(array) |-> f(array[i])])

\* the decimal digits of a natural number
RECURSIVE DigitsOf(_)
DigitsOf(n) ==
    IF n < 10 THEN <<ToString(n)>> ELSE Append(DigitsOf(n \div 10), ToString(n % 10))

\* `${x}` of a template literal
TemplateOf(x) ==
    CASE x.t = "string" -> x.v
      [] x.t = "number" -> IF x.v < 0 THEN <<"-">> \o DigitsOf(0 - x.v) ELSE DigitsOf(x.v)
      [] x.t = "boolean" -> IF x.v THEN Chars("true") ELSE Chars("false")
      [] x.t = "undefined" -> Chars("undefined")
      [] x.t = "null" -> Chars("null")
      [] OTHER -> Chars("[object Object]")

\* typeof x
typeof(x) == IF x.t \in {"null", "object", "array"} THEN "object" ELSE x.t

\* Object.keys(x) of an object or an array, as a set
ObjectKeys(x) ==
    IF x.t = "array" THEN {ToString(i - 1) : i \in 1..Len(x.v)} ELSE DOMAIN x.v

\* x[key] of an object or an array that has the key
PropOf(x, key) ==
    IF x.t = "array"
    THEN x.v[CHOOSE i \in 1..Len(x.v) : ToString(i - 1) = key]
    ELSE x.v[key]

\* a === b: primitives by value; the objects and arrays of two parsed
\* responses are never the same reference
StrictEquals(a, b) == a.t = b.t /\ a.t \notin {"object", "array"} /\ a = b

\* deepEqual with objects compared by reference only
deepEqual_referenceOnly(a, b) == StrictEquals(a, b)

RECURSIVE deepEqual(_, _)
deepEqual(a, b) ==
    IF StrictEquals(a, b) THEN TRUE
    ELSE IF typeof(a) # typeof(b) THEN FALSE
    ELSE IF a.t = "null" \/ b.t = "null" THEN FALSE
    ELSE IF typeof(a) # "object" THEN FALSE
    ELSE /\ Cardinality(ObjectKeys(a)) = Cardinality(ObjectKeys(b))
         /\ \A key \in ObjectKeys(a) :
                /\ key \in ObjectKeys(b)
                /\ deepEqual(PropOf(a, key), PropOf(b, key))

\* NodeMap entries in key order (ids are not integer-like, so the order of
\* insertion); Object.assign keeps the place of a key it overwrites
RECURSIVE assign(_, _)
assign(result, entries) ==
    IF entries = <<>> THEN result
    ELSE assign(
            IF \E i \in 1..Len(result) : result[i].id = entries[1].id
            THEN [i \in 1..Len(result) |->
                     IF result[i].id = entries[1].id THEN entries[1] ELSE result[i]]
            ELSE Append(result, entries[1]),
            Tail(entries))

RECURSIVE flattenNodes(_, _)
RECURSIVE flattenChildren(_, _, _)
flattenChildren(children, currentPath, result) ==
    IF children = <<>> THEN result
    ELSE flattenChildren(Tail(children), currentPath,
                         assign(result, flattenNodes(children[1], currentPath)))

flattenNodes(node, path) ==
    flattenChildren(
        IF "children" \in DOMAIN node THEN node.children ELSE <<>>,
        Append(path, node.name),
        <<[id |-> node.id, node |-> node, path |-> Append(path, node.name)]>>)

\* the keys of getComparableProperties in the order they are assigned
ComparableProperties ==
    <<"name", "type", "visible", "fills", "strokes", "strokeWeight",
      "cornerRadius", "effects", "layoutMode", "primaryAxisSizingMode",
      "counterAxisSizingMode", "paddingLeft", "paddingRight", "paddingTop",
      "paddingBottom", "itemSpacing", "characters", "style", "componentId",
      "componentPropertyDefinitions", "size">>

\* properties copied under `if (node.p)`
CopiedIfTruthy ==
    {"fills", "strokes", "effects", "layoutMode", "primaryAxisSizingMode",
     "counterAxisSizingMode", "characters", "style", "componentId",
     "componentPropertyDefinitions"}

\* does getComparableProperties(node) have the key
hasComparable(node, key) ==
    CASE key \in {"name", "type", "visible"} -> TRUE
      [] key \in CopiedIfTruthy -> Truthy(Get(node, key))
      [] key = "size" -> Truthy(Get(node, "absoluteBoundingBox"))
      [] OTHER -> Get(node, key).t # "undefined"

\* a size that carries the position with it
sizeOf_withPosition(box) == box

\* size: width and height, not the position
sizeOf(box) == Obj([width |-> Get(box.v, "width"), height |-> Get(box.v, "height")])

comparableValue(node, key) ==
    CASE key = "name" -> Str(node.name)
      [] key = "type" -> Str(node.type)
      [] key = "size" -> sizeOf(node.absoluteBoundingBox)
      [] OTHER -> Get(node, key)

getComparableProperties(node) ==
    [key \in {k \in Range(ComparableProperties) : hasComparable(node, k)} |->
        comparableValue(node, key)]

\* Object.keys(props)
propertyKeys(props) == SelectSeq(ComparableProperties, LAMBDA k : k \in DOMAIN props)

\* [...new Set([...Object.keys(oldProps), ...Object.keys(newProps)])]
allKeys(oldProps, newProps) ==
    propertyKeys(oldProps)
        \o SelectSeq(propertyKeys(newProps), LAMBDA k : k \notin DOMAIN oldProps)

propertyChanges(oldProps, newProps) ==
    Map(SelectSeq(allKeys(oldProps, newProps),
                  LAMBDA key : ~deepEqual(Get(oldProps, key), Get(newProps, key))),
        LAMBDA key : [property |-> key, before |-> Get(oldProps, key),
                      after |-> Get(newProps, key)])

findPropertyChanges(oldNode, newNode) ==
    propertyChanges(getComparableProperties(oldNode), getComparableProperties(newNode))

\* the description of one property change
describeChange(change) ==
    CASE change.property = "name" ->
            Chars("renamed from \"") \o TemplateOf(change.before)
                \o Chars("\" to \"") \o TemplateOf(change.after) \o Chars("\"")
      [] change.property = "visible" ->
            IF Truthy(change.after) THEN Chars("made visible") ELSE Chars("hidden")
      [] change.property = "fills" -> Chars("fill changed")
      [] change.property = "strokes" -> Chars("stroke changed")
      [] change.property = "effects" -> Chars("effects changed")
      [] change.property = "style" -> Chars("text style changed")
      [] change.property = "characters" -> Chars("text content changed")
      [] change.property = "size" ->
            \* Math.round of a width or height, which are integers here
            Chars("resized from ") \o TemplateOf(change.before.v.width)
                \o <<"x">> \o TemplateOf(change.before.v.height)
                \o Chars(" to ") \o TemplateOf(change.after.v.width)
                \o <<"x">> \o TemplateOf(change.after.v.height)
      [] change.property = "layoutMode" ->
            Chars("layout changed to ")
                \o (IF Truthy(change.after) THEN TemplateOf(change.after)
                    ELSE Chars("none"))
      [] change.property = "itemSpacing" ->
            Chars("spacing changed from ") \o TemplateOf(change.before)
                \o Chars(" to ") \o TemplateOf(change.after)
      [] change.property \in {"paddingLeft", "paddingRight", "paddingTop",
                              "paddingBottom"} -> Chars("padding changed")
      [] change.property = "cornerRadius" ->
            Chars("corner radius changed from ") \o TemplateOf(change.before)
                \o Chars(" to ") \o TemplateOf(change.after)
      [] change.property = "strokeWeight" ->
            Chars("stroke weight changed from ") \o TemplateOf(change.before)
                \o Chars(" to ") \o TemplateOf(change.after)
      [] OTHER -> Chars(change.property) \o Chars(" changed")

formatPropertyChanges(changes) ==
    join(Dedupe(Map(changes, describeChange)), Chars(", "))

\* the skip test without the canvas type
isContainerType_documentOnly(type) == type = Chars("DOCUMENT")

\* node.type === 'DOCUMENT' || node.type === 'CANVAS'
isContainerType(type) == type = Chars("DOCUMENT") \/ type = Chars("CANVAS")

hasId(nodes, id) == \E i \in 1..Len(nodes) : nodes[i].id = id

infoOf(nodes, id) == nodes[CHOOSE i \in 1..Len(nodes) : nodes[i].id = id]

addedNodeChange(info) ==
    [type |-> "added", nodeId |-> info.id, nodeName |-> info.node.name,
     nodeType |-> info.node.type, path |-> info.path,
     details |-> Chars("Added ") \o toLowerCase(info.node.type)]

\* the second loop pushing the change type of the first
removedNodeChange_asAdded(info) ==
    [type |-> "added", nodeId |-> info.id, nodeName |-> info.node.name,
     nodeType |-> info.node.type, path |-> info.path,
     details |-> Chars("Removed ") \o toLowerCase(info.node.type)]

removedNodeChange(info) ==
    [type |-> "removed", nodeId |-> info.id, nodeName |-> info.node.name,
     nodeType |-> info.node.type, path |-> info.path,
     details |-> Chars("Removed ") \o toLowerCase(info.node.type)]

\* oldInfo.path.slice(0, -1).join('/') !== newInfo.path.slice(0, -1).join('/')
pathChanged(oldInfo, newInfo) ==
    join(SubSeq(oldInfo.path, 1, Len(oldInfo.path) - 1), <<"/">>)
        # join(SubSeq(newInfo.path, 1, Len(newInfo.path) - 1), <<"/">>)

\* a change type that counts a differing path as one more changed property
changeTypeOf_pathAsProperty(oldInfo, newInfo, propChanges) ==
    IF /\ Len(propChanges) = 1
       /\ propChanges[1].property = "name"
       /\ ~pathChanged(oldInfo, newInfo)
    THEN "renamed"
    ELSE "modified"

\* the change type chosen inside `if (propChanges.length > 0)`
changeTypeOf(oldInfo, newInfo, propChanges) ==
    IF pathChanged(oldInfo, newInfo) /\ Len(propChanges) = 0 THEN "moved"
    ELSE IF Len(propChanges) = 1 /\ propChanges[1].property = "name" THEN "renamed"
    ELSE "modified"

\* a NodeChange that files every in-place change as modified
modifiedNodeChange_alwaysModified(oldInfo, newInfo, propChanges) ==
    [type |-> "modified",
     nodeId |-> oldInfo.id, nodeName |-> newInfo.node.name,
     nodeType |-> newInfo.node.type, path |-> newInfo.path,
     details |-> formatPropertyChanges(propChanges),
     before |-> getComparableProperties(oldInfo.node),
     after |-> getComparableProperties(newInfo.node)]

\* the NodeChange pushed for an id of both snapshots
modifiedNodeChange(oldInfo, newInfo, propChanges) ==
    [type |-> changeTypeOf(oldInfo, newInfo, propChanges),
     nodeId |-> oldInfo.id, nodeName |-> newInfo.node.name,
     nodeType |-> newInfo.node.type, path |-> newInfo.path,
     details |-> formatPropertyChanges(propChanges),
     before |-> getComparableProperties(oldInfo.node),
     after |-> getComparableProperties(newInfo.node)]

\* the ids of the third loop that get a NodeChange
isReportedModified(oldInfo, newNodes) ==
    /\ hasId(newNodes, oldInfo.id)
    /\ ~isContainerType(oldInfo.node.type)
    /\ Len(findPropertyChanges(oldInfo.node, infoOf(newNodes, oldInfo.id).node)) > 0

nodeChangesOf(oldNodes, newNodes) ==
    Map(SelectSeq(newNodes, LAMBDA info :
            ~hasId(oldNodes, info.id) /\ ~isContainerType(info.node.type)),
        addedNodeChange)
    \o Map(SelectSeq(oldNodes, LAMBDA info :
            ~hasId(newNodes, info.id) /\ ~isContainerType(info.node.type)),
        removedNodeChange)
    \o Map(SelectSeq(oldNodes, LAMBDA info : isReportedModified(info, newNodes)),
        LAMBDA info :
            modifiedNodeChange(info, infoOf(newNodes, info.id),
                findPropertyChanges(info.node, infoOf(newNodes, info.id).node)))

\* a components or styles table: its entries [key, value] in key order
\* (`file.components || {}`)
tableOf(file, field) == IF field \in DOMAIN file THEN file[field] ELSE <<>>

hasKey(table, key) == \E i \in 1..Len(table) : table[i].key = key

valueOf(table, key) == table[CHOOSE i \in 1..Len(table) : table[i].key = key].value

addedComponentChange(entry) ==
    [type |-> "added", componentKey |-> entry.key,
     componentName |-> entry.value.v.name.v,
     details |-> Chars("New component created"), after |-> entry.value]

\* changes.join(', ') || 'Component updated'
componentDetails(oldComp, newComp) ==
    IF ~StrictEquals(oldComp.v.name, newComp.v.name)
    THEN IF ~StrictEquals(oldComp.v.description, newComp.v.description)
         THEN Chars("name changed, description updated")
         ELSE Chars("name changed")
    ELSE IF ~StrictEquals(oldComp.v.description, newComp.v.description)
         THEN Chars("description updated")
         ELSE Chars("Component updated")

\* the change of a key of the old table: removed, or modified when it is in
\* both tables
oldComponentChange(entry, newComponents) ==
    IF ~hasKey(newComponents, entry.key)
    THEN [type |-> "removed", componentKey |-> entry.key,
          componentName |-> entry.value.v.name.v,
          details |-> Chars("Component deleted"), before |-> entry.value]
    ELSE [type |-> "modified", componentKey |-> entry.key,
          componentName |-> valueOf(newComponents, entry.key).v.name.v,
          details |-> componentDetails(entry.value, valueOf(newComponents, entry.key)),
          before |-> entry.value, after |-> valueOf(newComponents, entry.key)]

\* is a key of the old table reported: it is gone, or its record differs
isChangedEntry(entry, newTable) ==
    \/ ~hasKey(newTable, entry.key)
    \/ ~deepEqual(entry.value, valueOf(newTable, entry.key))

componentChangesOf(oldComponents, newComponents) ==
    Map(SelectSeq(newComponents, LAMBDA entry : ~hasKey(oldComponents, entry.key)),
        addedComponentChange)
    \o Map(SelectSeq(oldComponents, LAMBDA entry : isChangedEntry(entry, newComponents)),
           LAMBDA entry : oldComponentChange(entry, newComponents))

addedStyleChange(entry) ==
    [type |-> "added", styleKey |-> entry.key, styleName |-> entry.value.v.name.v,
     styleType |-> entry.value.v.styleType.v,
     details |-> Chars("New ") \o toLowerCase(entry.value.v.styleType.v)
                     \o Chars(" style"),
     after |-> entry.value]

oldStyleChange(entry, newStyles) ==
    IF ~hasKey(newStyles, entry.key)
    THEN [type |-> "removed", styleKey |-> entry.key,
          styleName |-> entry.value.v.name.v,
          styleType |-> entry.value.v.styleType.v,
          details |-> Chars("Style deleted"), before |-> entry.value]
    ELSE [type |-> "modified", styleKey |-> entry.key,
          styleName |-> valueOf(newStyles, entry.key).v.name.v,
          styleType |-> valueOf(newStyles, entry.key).v.styleType.v,
          details |-> Chars("Style updated"),
          before |-> entry.value, after |-> valueOf(newStyles, entry.key)]

styleChangesOf(oldStyles, newStyles) ==
    Map(SelectSeq(newStyles, LAMBDA entry : ~hasKey(oldStyles, entry.key)),
        addedStyleChange)
    \o Map(SelectSeq(oldStyles, LAMBDA entry : isChangedEntry(entry, newStyles)),
           LAMBDA entry : oldStyleChange(entry, newStyles))

\* nodeChanges.filter((c) => c.type === type).length
countOfType(nodeChanges, type) ==
    Cardinality({i \in 1..Len(nodeChanges) : nodeChanges[i].type = type})

summaryOf(nodeChanges, componentChanges, styleChanges) ==
    [totalChanges |-> Len(nodeChanges) + Len(componentChanges) + Len(styleChanges),
     nodesAdded |-> countOfType(nodeChanges, "added"),
     nodesRemoved |-> countOfType(nodeChanges, "removed"),
     nodesModified |-> countOfType(nodeChanges, "modified"),
     nodesRenamed |-> countOfType(nodeChanges, "renamed"),
     nodesMoved |-> countOfType(nodeChanges, "moved"),
     componentsChanged |-> Len(componentChanges),
     stylesChanged |-> Len(styleChanges)]

versionOf(version) ==
    [id |-> version.id, createdAt |-> version.created_at, label |-> version.label]

diffResultOf(nodeChanges, componentChanges, styleChanges, from, to, fileName) ==
    [summary |-> summaryOf(nodeChanges, componentChanges, styleChanges),
     nodeChanges |-> nodeChanges,
     componentChanges |-> componentChanges,
     styleChanges |-> styleChanges,
     fromVersion |-> versionOf(from),
     toVersion |-> versionOf(to),
     fileName |-> fileName]

diffFiles(old, new, from, to) ==
    diffResultOf(
        nodeChangesOf(flattenNodes(old.document, <<>>), flattenNodes(new.document, <<>>)),
        componentChangesOf(tableOf(old, "components"), tableOf(new, "components")),
        styleChangesOf(tableOf(old, "styles"), tableOf(new, "styles")),
        from, to, new.name)

----------------------------------------------------------------------------
(* Semantic grouper: analysis/semantic-grouper (src/unnamed/part_000) *)

\* NOISE_PATTERNS of the form /^word$/i
NOISE_WORDS ==
    {Chars("vector"), Chars("image"), Chars("intersect"), Chars("union"),
     Chars("subtract")}

\* NOISE_PATTERNS of the form /^word \d+$/i
NOISE_NUMBERED_WORDS ==
    {Chars("rectangle "), Chars("ellipse "), Chars("line "), Chars("frame "),
     Chars("group ")}

NOISE_NODE_TYPES ==
    {Chars("VECTOR"), Chars("BOOLEAN_OPERATION"), Chars("LINE"),
     Chars("REGULAR_POLYGON"), Chars("STAR"), Chars("SLICE")}

\* /^\d+$/ on the text from position `from`
isDigitsFrom(s, from) == from <= Len(s) /\ \A i \in from..Len(s) : IsDigit(s[i])

\* NOISE_PATTERNS.some(pattern => pattern.test(name)), on the lower-cased name
isNoiseLowerName(lower) ==
    \/ lower \in NOISE_WORDS
    \/ \E word \in NOISE_NUMBERED_WORDS :
           startsWith(lower, word) /\ isDigitsFrom(lower, Len(word) + 1)

isNoiseName(name) == With(toLowerCase(name), isNoiseLowerName)

\* a type test that takes every node type for a noise type
isNoiseType_any(nodeType) == TRUE

isNoiseType(nodeType) == nodeType \in NOISE_NODE_TYPES

\* a filter that keeps the noise-named segments
meaningfulPath_keepNoise(path) ==
    SelectSeq(path, LAMBDA p : p # Chars("Document"))

\* path.filter(p => p !== 'Document' && !isNoiseName(p))
meaningfulPath(path) ==
    SelectSeq(path, LAMBDA p : p # Chars("Document") /\ ~isNoiseName(p))

\* the name returned by extractFeatureName
featureNameOf(meaningful) ==
    IF Len(meaningful) = 0 THEN Chars("Ungrouped") ELSE meaningful[1]

extractFeatureName(path) == featureNameOf(meaningfulPath(path))

\* /[A-Za-z]+=/.test(name)
isVariantName(name) ==
    \E i \in 1..(Len(name) - 1) : IsLetter(name[i]) /\ name[i + 1] = "="

\* the length of the run of [A-Za-z] that starts at position i
RECURSIVE LetterRun(_, _)
LetterRun(s, i) ==
    IF i <= Len(s) /\ IsLetter(s[i]) THEN 1 + LetterRun(s, i + 1) ELSE 0

\* the length of the run of [\w\s] that starts at position i
RECURSIVE WordOrSpaceRun(_, _)
WordOrSpaceRun(s, i) ==
    IF i <= Len(s) /\ (IsWordChar(s[i]) \/ IsSpace(s[i]))
    THEN 1 + WordOrSpaceRun(s, i + 1) ELSE 0

\* the position after the match of `=[\w\s]+` at position i, or 0
variantValueEnd(s, i) ==
    IF i <= Len(s) /\ s[i] = "=" /\ WordOrSpaceRun(s, i + 1) > 0
    THEN i + 1 + WordOrSpaceRun(s, i + 1)
    ELSE 0

\* the position after a match of /[A-Za-z]+=[\w\s]+/ that starts at i, or 0
variantMatchEnd(s, i) ==
    IF LetterRun(s, i) > 0 THEN variantValueEnd(s, i + LetterRun(s, i)) ELSE 0

\* the first position from `from` on where the pattern matches, or 0
RECURSIVE firstVariantMatch(_, _)
firstVariantMatch(s, from) ==
    IF from > Len(s) THEN 0
    ELSE IF variantMatchEnd(s, from) > 0 THEN from
    ELSE firstVariantMatch(s, from + 1)

\* name.match(/[A-Za-z]+=[\w\s]+/g) || []: the matches from a position on,
\* each search resuming after the previous match
RECURSIVE variantMatchesFrom(_, _)
variantMatchesFrom(s, from) ==
    With(firstVariantMatch(s, from), LAMBDA start :
        IF start = 0 THEN <<>>
        ELSE With(variantMatchEnd(s, start), LAMBDA end :
                <<SubSeq(s, start, end - 1)>> \o variantMatchesFrom(s, end)))

extractVariantProperties(name) == variantMatchesFrom(name, 1)

\* name.toLowerCase().includes(word)
nameIncludes(name, word) ==
    With(toLowerCase(name), LAMBDA lower : includes(lower, Chars(word)))

hasNodeType(nodeChanges, nodeType) ==
    \E i \in 1..Len(nodeChanges) : nodeChanges[i].nodeType = Chars(nodeType)

\* a categorizer that tests for component changes before the icon name
categorizeFeature_componentBeforeIcon(name, nodeChanges, componentChanges) ==
    IF hasNodeType(nodeChanges, "COMPONENT_SET") \/ Len(componentChanges) > 5
    THEN "component-set"
    ELSE IF Len(componentChanges) > 0 \/ hasNodeType(nodeChanges, "COMPONENT")
    THEN "component"
    ELSE IF nameIncludes(name, "icon") \/ nameIncludes(name, "icons") THEN "icon"
    ELSE IF nameIncludes(name, "style") \/ nameIncludes(name, "color") THEN "style"
    ELSE IF Len(nodeChanges) > 10 THEN "page-section"
    ELSE "misc"

categorizeFeature(name, nodeChanges, componentChanges) ==
    IF hasNodeType(nodeChanges, "COMPONENT_SET") \/ Len(componentChanges) > 5
    THEN "component-set"
    ELSE IF nameIncludes(name, "icon") \/ nameIncludes(name, "icons") THEN "icon"
    ELSE IF Len(componentChanges) > 0 \/ hasNodeType(nodeChanges, "COMPONENT")
    THEN "component"
    ELSE IF nameIncludes(name, "style") \/ nameIncludes(name, "color") THEN "style"
    ELSE IF Len(nodeChanges) > 10 THEN "page-section"
    ELSE "misc"

\* `element` or `elements`, `variant` or `variants`
plural(word, n) == IF n > 1 THEN Chars(word) \o <<"s">> ELSE Chars(word)

\* the first part of the description
changeTypePart(name, changeType, changes, componentChanges) ==
    IF changeType = "new"
    THEN IF Len(componentChanges) > 0
         THEN <<Chars("New component with ") \o DigitsOf(Len(componentChanges))
                    \o <<" ">> \o plural("variant", Len(componentChanges))>>
         ELSE <<Chars("New ") \o toLowerCase(name) \o Chars(" added")>>
    ELSE IF changeType = "removed" THEN <<name \o Chars(" removed")>>
    ELSE IF changes.added > 0 /\ changes.modified > 0
    THEN <<Chars("Added ") \o DigitsOf(changes.added)
               \o Chars(" elements, modified ") \o DigitsOf(changes.modified)>>
    ELSE IF changes.added > 0
    THEN <<Chars("Added ") \o DigitsOf(changes.added) \o <<" ">>
               \o plural("element", changes.added)>>
    ELSE IF changes.modified > 0
    THEN <<Chars("Modified ") \o DigitsOf(changes.modified) \o <<" ">>
               \o plural("element", changes.modified)>>
    ELSE <<>>

\* the concatenation of the arrays of an array
RECURSIVE Flatten(_)
Flatten(arrays) ==
    IF arrays = <<>> THEN <<>> ELSE arrays[1] \o Flatten(Tail(arrays))

\* the property names of the variants, first occurrences in order
uniqueProps(variants) ==
    Dedupe(Map(Flatten(Map(variants, extractVariantProperties)),
               LAMBDA p : split(p, "=")[1]))

\* the second part of the description
variantsPart(variants) ==
    IF Len(variants) > 3
    THEN With(uniqueProps(variants), LAMBDA unique :
            IF Len(unique) > 0
            THEN <<Chars("Variants: ") \o join(unique, Chars(", "))>>
            ELSE <<>>)
    ELSE <<>>

\* parts.join('. ') || 'Changes made'
descriptionOf(parts) ==
    With(join(parts, Chars(". ")), LAMBDA joined :
        IF joined # <<>> THEN joined ELSE Chars("Changes made"))

generateDescription(name, changeType, changes, variants, componentChanges) ==
    descriptionOf(changeTypePart(name, changeType, changes, componentChanges)
                      \o variantsPart(variants))

\* props.find(p => p.startsWith(prefix))?.split('=')[1], as an array of at
\* most one truthy value
variantValue(props, prefix) ==
    IF \E i \in 1..Len(props) : startsWith(props[i], Chars(prefix))
    THEN SelectSeq(
            <<split(props[Least({i \in 1..Len(props) :
                                    startsWith(props[i], Chars(prefix))})],
                    "=")[2]>>,
            LAMBDA value : value # <<>>)
    ELSE <<>>

\* the unique values of one variant property among the added components
addedVariantValues(componentChanges, prefix, variantNamesOnly) ==
    Dedupe(Flatten(Map(
        SelectSeq(componentChanges, LAMBDA c :
            c.type = "added" /\ (variantNamesOnly => isVariantName(c.componentName))),
        LAMBDA c : With(extractVariantProperties(c.componentName),
                        LAMBDA props : variantValue(props, prefix)))))

\* `Label: a, b`, or the count when there are more than five
highlightOf(values, label, counted) ==
    IF Len(values) = 0 THEN <<>>
    ELSE IF Len(values) <= 5
    THEN <<Chars(label) \o Chars(": ") \o join(values, Chars(", "))>>
    ELSE <<DigitsOf(Len(values)) \o Chars(counted)>>

\* `Sizes: a, b`, whatever their number
sizesHighlight(values) ==
    IF Len(values) = 0 THEN <<>>
    ELSE <<Chars("Sizes: ") \o join(values, Chars(", "))>>

\* array.slice(0, n)
sliceTo(s, n) == SubSeq(s, 1, Min(n, Len(s)))

extractHighlights(nodeChanges, componentChanges) ==
    sliceTo(highlightOf(addedVariantValues(componentChanges, "State=", TRUE),
                        "States", " state variants")
                \o sizesHighlight(addedVariantValues(componentChanges, "Size=", FALSE))
                \o highlightOf(addedVariantValues(componentChanges, "Type=", FALSE),
                               "Types", " type variants"),
            5)

\* a new entry of featureMap
newFeature(name) ==
    [name |-> name, nodeChanges |-> <<>>, componentChanges |-> <<>>, paths |-> <<>>]

hasFeature(featureMap, name) ==
    \E i \in 1..Len(featureMap) : featureMap[i].name = name

\* featureMap with the entry of `name` present (Map.set when absent)
ensureFeature(featureMap, name) ==
    IF hasFeature(featureMap, name) THEN featureMap
    ELSE Append(featureMap, newFeature(name))

\* paths.add(path): a Set keeps the first insertion
addPath(paths, path) ==
    IF path \in Range(paths) THEN paths ELSE Append(paths, path)

\* feature.nodeChanges.push(change); feature.paths.add(...)
pushNodeChange(featureMap, name, change) ==
    [i \in 1..Len(featureMap) |->
        IF featureMap[i].name = name
        THEN [featureMap[i] EXCEPT
                 !.nodeChanges = Append(@, change),
                 !.paths = addPath(@, join(sliceTo(change.path, 3), Chars(" > ")))]
        ELSE featureMap[i]]

\* the round that skips a change without a feature name instead of keeping it
groupNodeChange_dropUngrouped(state, change, name) ==
    IF isNoiseName(change.nodeName) /\ isNoiseType(change.nodeType) THEN state
    ELSE IF name = Chars("Ungrouped") \/ isNoiseName(name) THEN state
    ELSE [state EXCEPT
             !.featureMap = pushNodeChange(ensureFeature(@, name), name, change)]

\* one round of the loop over diff.nodeChanges; state = [featureMap, ungrouped]
groupNodeChange(state, change, name) ==
    IF isNoiseName(change.nodeName) /\ isNoiseType(change.nodeType) THEN state
    ELSE IF name = Chars("Ungrouped") \/ isNoiseName(name)
    THEN [state EXCEPT !.ungrouped = Append(@, change)]
    ELSE [state EXCEPT
             !.featureMap = pushNodeChange(ensureFeature(@, name), name, change)]

RECURSIVE groupNodeChanges(_, _)
groupNodeChanges(state, nodeChanges) ==
    IF nodeChanges = <<>> THEN state
    ELSE With(groupNodeChange(state, nodeChanges[1],
                              extractFeatureName(nodeChanges[1].path)),
              LAMBDA next : groupNodeChanges(next, Tail(nodeChanges)))

\* componentPath[0] || change.componentName
candidateName(componentName) ==
    IF split(componentName, "/")[1] # <<>> THEN split(componentName, "/")[1]
    ELSE componentName

\* do the two names contain one another, letter case ignored
namesOverlap(featureLower, name) ==
    With(toLowerCase(name), LAMBDA nameLower :
        includes(featureLower, nameLower) \/ includes(nameLower, featureLower))

\* the index of the first entry of featureMap whose name overlaps the
\* candidate, or 0
firstOverlapping(featureMap, featureLower) ==
    IF \E i \in 1..Len(featureMap) :
           namesOverlap(featureLower, featureMap[i].name)
    THEN Least({i \in 1..Len(featureMap) :
                   namesOverlap(featureLower, featureMap[i].name)})
    ELSE 0

\* matchedFeature || featureName (an empty matched name is falsy)
targetOf(featureMap, featureName, index) ==
    IF index = 0 THEN featureName
    ELSE IF featureMap[index].name = <<>> THEN featureName
    ELSE featureMap[index].name

\* a target that is always the feature keyed by the candidate
targetFeature_keyedByCandidate(featureMap, featureName) == featureName

targetFeature(featureMap, featureName) ==
    With(toLowerCase(featureName), LAMBDA featureLower :
        targetOf(featureMap, featureName, firstOverlapping(featureMap, featureLower)))

pushComponentChange(featureMap, name, change) ==
    [i \in 1..Len(featureMap) |->
        IF featureMap[i].name = name
        THEN [featureMap[i] EXCEPT !.componentChanges = Append(@, change)]
        ELSE featureMap[i]]

\* one round of the loop over diff.componentChanges
groupComponentChange(featureMap, change, target) ==
    pushComponentChange(ensureFeature(featureMap, target), target, change)

RECURSIVE groupComponentChanges(_, _)
groupComponentChanges(featureMap, componentChanges) ==
    IF componentChanges = <<>> THEN featureMap
    ELSE With(groupComponentChange(featureMap, componentChanges[1],
                  targetFeature(featureMap,
                                candidateName(componentChanges[1].componentName))),
              LAMBDA next : groupComponentChanges(next, Tail(componentChanges)))

\* changes.filter(c => c.type is one of types).length
countTypes(changes, types) ==
    Cardinality({i \in 1..Len(changes) : changes[i].type \in types})

\* counts that leave the renamed node changes out
changeCounts_renamedApart(nodeChanges, componentChanges) ==
    [added |-> countTypes(nodeChanges, {"added"})
                   + countTypes(componentChanges, {"added"}),
     modified |-> countTypes(nodeChanges, {"modified"})
                      + countTypes(componentChanges, {"modified"}),
     removed |-> countTypes(nodeChanges, {"removed"})
                     + countTypes(componentChanges, {"removed"})]

changeCounts(nodeChanges, componentChanges) ==
    [added |-> countTypes(nodeChanges, {"added"})
                   + countTypes(componentChanges, {"added"}),
     modified |-> countTypes(nodeChanges, {"modified", "renamed"})
                      + countTypes(componentChanges, {"modified"}),
     removed |-> countTypes(nodeChanges, {"removed"})
                     + countTypes(componentChanges, {"removed"})]

\* the majority test against all the component changes instead of half
featureChangeType_noHalving(changes, componentChanges) ==
    IF changes.removed > changes.added /\ changes.removed > changes.modified
    THEN "removed"
    ELSE IF changes.added > changes.modified /\ changes.added > 0
    THEN IF countTypes(componentChanges, {"added"}) > Len(componentChanges)
         THEN "new" ELSE "updated"
    ELSE "updated"

\* the majority test with at least half instead of more than half
featureChangeType_atLeastHalf(changes, componentChanges) ==
    IF changes.removed > changes.added /\ changes.removed > changes.modified
    THEN "removed"
    ELSE IF changes.added > changes.modified /\ changes.added > 0
    THEN IF 2 * countTypes(componentChanges, {"added"}) >= Len(componentChanges)
         THEN "new" ELSE "updated"
    ELSE "updated"

\* newComponents.length > componentChanges.length / 2, in whole numbers
featureChangeType(changes, componentChanges) ==
    IF changes.removed > changes.added /\ changes.removed > changes.modified
    THEN "removed"
    ELSE IF changes.added > changes.modified /\ changes.added > 0
    THEN IF 2 * countTypes(componentChanges, {"added"}) > Len(componentChanges)
         THEN "new" ELSE "updated"
    ELSE "updated"

variantsOf(componentChanges) ==
    Map(SelectSeq(componentChanges, LAMBDA c : isVariantName(c.componentName)),
        LAMBDA c : c.componentName)

featureGroupOf(name, data, changes, changeType, variants) ==
    [name |-> name,
     description |-> generateDescription(name, changeType, changes, variants,
                                         data.componentChanges),
     category |-> categorizeFeature(name, data.nodeChanges, data.componentChanges),
     changeType |-> changeType,
     changes |-> changes,
     variants |-> variants,
     highlights |-> extractHighlights(data.nodeChanges, data.componentChanges),
     nodeChanges |-> data.nodeChanges,
     componentChanges |-> data.componentChanges,
     \* Array.from(paths)[0] || name
     path |-> IF data.paths # <<>> /\ data.paths[1] # <<>> THEN data.paths[1]
              ELSE name]

featureGroupWith(data, changes) ==
    featureGroupOf(data.name, data, changes,
                   featureChangeType(changes, data.componentChanges),
                   variantsOf(data.componentChanges))

toFeatureGroup(data) ==
    With(changeCounts(data.nodeChanges, data.componentChanges),
         LAMBDA changes : featureGroupWith(data, changes))

\* the entries of featureMap that are not empty, as FeatureGroups
featureGroupsOf(featureMap) ==
    Map(SelectSeq(featureMap, LAMBDA data :
            ~(Len(data.nodeChanges) = 0 /\ Len(data.componentChanges) = 0)),
        toFeatureGroup)

totalOf(feature) ==
    feature.changes.added + feature.changes.modified + feature.changes.removed

\* a comparator by change volume alone
sortsBefore_byVolumeOnly(a, b) == totalOf(b) - totalOf(a) < 0

\* the comparator of features.sort: is a to be placed before b
sortsBefore(a, b) ==
    IF a.changeType = "new" /\ b.changeType # "new" THEN TRUE
    ELSE IF b.changeType = "new" /\ a.changeType # "new" THEN FALSE
    ELSE totalOf(b) - totalOf(a) < 0

\* insertion into a sorted array, after the elements that do not sort after it
RECURSIVE insertSorted(_, _)
insertSorted(sorted, feature) ==
    IF sorted = <<>> THEN <<feature>>
    ELSE IF sortsBefore(feature, sorted[Len(sorted)])
    THEN With(SubSeq(sorted, 1, Len(sorted) - 1), LAMBDA front :
            Append(insertSorted(front, feature), sorted[Len(sorted)]))
    ELSE Append(sorted, feature)

\* Array.prototype.sort, which is stable
RECURSIVE sortFeatures(_)
sortFeatures(features) ==
    IF features = <<>> THEN <<>>
    ELSE With(sortFeatures(SubSeq(features, 1, Len(features) - 1)),
              LAMBDA sorted : insertSorted(sorted, features[Len(features)]))

countChangeType(features, changeType) ==
    Cardinality({i \in 1..Len(features) : features[i].changeType = changeType})

semanticDiffResult(features, ungrouped, diff) ==
    [features |-> features,
     summary |-> [featuresWorkedOn |-> Len(features),
                  newFeatures |-> countChangeType(features, "new"),
                  updatedFeatures |-> countChangeType(features, "updated"),
                  removedFeatures |-> countChangeType(features, "removed"),
                  totalChanges |-> diff.summary.totalChanges],
     ungroupedChanges |-> ungrouped,
     styleChanges |-> diff.styleChanges,
     originalDiff |-> diff]

groupedOf(state, diff) ==
    With(featureGroupsOf(groupComponentChanges(state.featureMap, diff.componentChanges)),
         LAMBDA features :
             With(sortFeatures(features), LAMBDA sorted :
                 semanticDiffResult(sorted, state.ungrouped, diff)))

groupChangesSemanticaly(diff) ==
    With(groupNodeChanges([featureMap |-> <<>>, ungrouped |-> <<>>], diff.nodeChanges),
         LAMBDA state : groupedOf(state, diff))

----------------------------------------------------------------------------
(* Ticket matcher: src/src/analysis/ticket-matcher.ts *)

\* .replace(/[^a-z0-9\s]/g, '')
RECURSIVE stripPunctuation(_)
stripPunctuation(s) ==
    IF Len(s) = 0 THEN <<>>
    ELSE (IF IsLower(s[1]) \/ IsDigit(s[1]) \/ IsSpace(s[1])
          THEN <<s[1]>> ELSE <<>>) \o stripPunctuation(Tail(s))

\* .replace(/\s+/g, ' ')
RECURSIVE collapseWhitespace(_)
collapseWhitespace(s) ==
    IF Len(s) = 0 THEN <<>>
    ELSE IF IsSpace(s[1])
         THEN <<" ">> \o collapseWhitespace(trimStart(s))
         ELSE <<s[1]>> \o collapseWhitespace(Tail(s))

normalize(text) == trim(collapseWhitespace(stripPunctuation(toLowerCase(text))))

\* the token-overlap ratio of two word sets
wordOverlap(aWords, bWords) ==
    IF Max(Cardinality(aWords), Cardinality(bWords)) > 0
    THEN Rat(Cardinality({w \in aWords : w \in bWords /\ Len(w) > 2}),
             Max(Cardinality(aWords), Cardinality(bWords)))
    ELSE Rat(0, 1)

\* a similarity without the containment rule (token overlap only)
similarityOfNormalized_overlapOnly(aNorm, bNorm) ==
    IF aNorm = bNorm THEN Rat(1, 1)
    ELSE wordOverlap(Range(split(aNorm, " ")), Range(split(bNorm, " ")))

\* similarity, given the two normalized strings
similarityOfNormalized(aNorm, bNorm) ==
    IF aNorm = bNorm THEN Rat(1, 1)
    ELSE IF includes(aNorm, bNorm) \/ includes(bNorm, aNorm) THEN Rat(8, 10)
    ELSE wordOverlap(Range(split(aNorm, " ")), Range(split(bNorm, " ")))

similarity(a, b) == similarityOfNormalized(normalize(a), normalize(b))

\* length of the longest run of [a-zA-Z0-9] starting at position i
RECURSIVE AlnumRun(_, _)
AlnumRun(s, i) ==
    IF i <= Len(s) /\ (IsLetter(s[i]) \/ IsDigit(s[i]))
    THEN 1 + AlnumRun(s, i + 1)
    ELSE 0

\* url.match(/figma\.com\/(?:file|design|proto)\/([a-zA-Z0-9]+)/)
extractFileKeyFromUrl(url) ==
    LET Prefixes == {Chars("figma.com/") \o kind \o <<"/">> :
                        kind \in {Chars("file"), Chars("design"), Chars("proto")}}
        KeyStart(i) == {i + Len(p) : p \in {q \in Prefixes : MatchesAt(url, q, i)}}
        Hits == {i \in 1..Len(url) :
                    \E k \in KeyStart(i) : AlnumRun(url, k) > 0}
    IN  IF Hits = {} THEN Null
        ELSE LET i == CHOOSE h \in Hits : \A g \in Hits : h <= g
                 k == CHOOSE x \in KeyStart(i) : AlnumRun(url, x) > 0
             IN  Str(SubSeq(url, k, k + AlnumRun(url, k) - 1))

ticketHasFigmaFile(ticket, fileKey) ==
    \E i \in 1..Len(ticket.figmaLinks) :
        LET linkFileKey == extractFileKeyFromUrl(ticket.figmaLinks[i])
        IN  linkFileKey = Str(fileKey)

\* `reason = reason || text`
reasonOr(reason, text) == IF reason # <<>> THEN reason ELSE text

\* a link test that accepts any parsed Figma link
scoreFigmaLink_anyFile(ticket, fileKey) ==
    IF Truthy(fileKey)
       /\ \E i \in 1..Len(ticket.figmaLinks) :
              extractFileKeyFromUrl(ticket.figmaLinks[i]) # Null
    THEN [score |-> Rat(1, 2), reason |-> Chars("Figma file linked in ticket")]
    ELSE [score |-> Rat(0, 1), reason |-> <<>>]

\* 1. direct Figma file link
scoreFigmaLink(ticket, fileKey) ==
    IF Truthy(fileKey) /\ ticketHasFigmaFile(ticket, fileKey.v)
    THEN [score |-> Rat(1, 2), reason |-> Chars("Figma file linked in ticket")]
    ELSE [score |-> Rat(0, 1), reason |-> <<>>]

\* a title term that adds the similarity without its weight
scoreTitle_unweighted(acc, ticket, titleSim) ==
    IF RatGT(titleSim, Rat(5, 10))
    THEN [score |-> RatAdd(acc.score, titleSim),
          reason |-> reasonOr(acc.reason,
                              Chars("Title match: \"") \o ticket.title \o <<"\"">>)]
    ELSE acc

\* 2. title similarity
scoreTitle(acc, ticket, titleSim) ==
    IF RatGT(titleSim, Rat(5, 10))
    THEN [score |-> RatAdd(acc.score, RatMul(titleSim, Rat(3, 10))),
          reason |-> reasonOr(acc.reason,
                              Chars("Title match: \"") \o ticket.title \o <<"\"">>)]
    ELSE acc

\* 3. description similarity (descSim is read only when there is one)
scoreDescription(acc, ticket, descSim) ==
    IF Truthy(ticket.description) /\ RatGT(descSim, Rat(3, 10))
    THEN [score |-> RatAdd(acc.score, RatMul(descSim, Rat(2, 10))),
          reason |-> reasonOr(acc.reason, Chars("Mentioned in description"))]
    ELSE acc

\* 4. labels: the indexes of the labels similar to the feature name
labelHits(feature, ticket) ==
    {i \in 1..Len(ticket.labels) :
        RatGT(similarity(feature.name, ticket.labels[i].name), Rat(6, 10))}

scoreLabels(acc, ticket, hits) ==
    IF hits # {}
    THEN [score |-> RatAdd(acc.score, Rat(2, 10)),
          reason |-> reasonOr(acc.reason,
              Chars("Label match: \"")
              \o ticket.labels[CHOOSE i \in hits : \A j \in hits : i <= j].name
              \o <<"\"">>)]
    ELSE acc

\* score and reason of one ticket for one feature (body of the for loop)
ticketScore(feature, ticket, fileKey) ==
    scoreLabels(
        scoreDescription(
            scoreTitle(scoreFigmaLink(ticket, fileKey), ticket,
                       similarity(feature.name, ticket.title)),
            ticket,
            IF Truthy(ticket.description)
            THEN similarity(feature.name, ticket.description.v)
            ELSE Rat(0, 1)),
        ticket, labelHits(feature, ticket))

\* `if (score > bestScore)` for the candidate c of ticket
betterOf(best, ticket, c) ==
    IF RatGT(c.score, best.bestScore)
    THEN [bestMatch |-> ticket, bestScore |-> c.score, bestReason |-> c.reason]
    ELSE best

\* the for loop of findBestTicketMatch over tickets[i..]
RECURSIVE bestTicketLoop(_, _, _, _, _)
bestTicketLoop(feature, ticketList, fileKey, i, best) ==
    IF i > Len(ticketList) THEN best
    ELSE bestTicketLoop(feature, ticketList, fileKey, i + 1,
             betterOf(best, ticketList[i],
                      ticketScore(feature, ticketList[i], fileKey)))

\* confidence levels whose low tier starts at 0.1 inclusive
confidenceOf_lowFromTenth(best) ==
    IF RatGE(best.bestScore, Rat(7, 10))
    THEN [ticket |-> best.bestMatch, confidence |-> "high",
          reason |-> best.bestReason]
    ELSE IF RatGE(best.bestScore, Rat(4, 10))
    THEN [ticket |-> best.bestMatch, confidence |-> "medium",
          reason |-> best.bestReason]
    ELSE IF RatGE(best.bestScore, Rat(1, 10))
    THEN [ticket |-> best.bestMatch, confidence |-> "low",
          reason |-> best.bestReason]
    ELSE [ticket |-> Null, confidence |-> "none",
          reason |-> Chars("No matching ticket found")]

\* the confidence level of the best candidate
confidenceOf(best) ==
    IF RatGE(best.bestScore, Rat(7, 10))
    THEN [ticket |-> best.bestMatch, confidence |-> "high",
          reason |-> best.bestReason]
    ELSE IF RatGE(best.bestScore, Rat(4, 10))
    THEN [ticket |-> best.bestMatch, confidence |-> "medium",
          reason |-> best.bestReason]
    ELSE IF RatGT(best.bestScore, Rat(1, 10))
    THEN [ticket |-> best.bestMatch, confidence |-> "low",
          reason |-> best.bestReason]
    ELSE [ticket |-> Null, confidence |-> "none",
          reason |-> Chars("No matching ticket found")]

findBestTicketMatch(feature, ticketList, fileKey) ==
    IF Len(ticketList) = 0
    THEN [ticket |-> Null, confidence |-> "none",
          reason |-> Chars("No tickets available")]
    ELSE confidenceOf(bestTicketLoop(feature, ticketList, fileKey, 1,
                          [bestMatch |-> Null, bestScore |-> Rat(0, 1),
                           bestReason |-> <<>>]))

\* a matcher that keeps assigned tickets in the candidate pool
availableTickets_keepAssigned(ticketList, matchedTicketIds) == ticketList

\* tickets.filter(t => !matchedTicketIds.has(t.id))
availableTickets(ticketList, matchedTicketIds) ==
    SelectSeq(ticketList, LAMBDA t : t.id \notin matchedTicketIds)

\* the end of one iteration of the feature loop: record the match m
recordMatch(state, feature, m) ==
    [matches |-> Append(state.matches,
                        [feature |-> feature, ticket |-> m.ticket,
                         matchConfidence |-> m.confidence,
                         matchReason |-> m.reason]),
     matchedTicketIds |->
         IF m.ticket # Null /\ m.confidence # "none"
         THEN state.matchedTicketIds \cup {m.ticket.id}
         ELSE state.matchedTicketIds]

\* a feature loop that serves the later features first
RECURSIVE matchLoop_laterFirst(_, _, _, _, _)
matchLoop_laterFirst(features, ticketList, fileKey, i, state) ==
    IF i > Len(features) THEN state
    ELSE LET rest == matchLoop_laterFirst(features, ticketList, fileKey, i + 1, state)
             m == findBestTicketMatch(features[i],
                      availableTickets(ticketList, rest.matchedTicketIds), fileKey)
         IN  [matches |-> <<[feature |-> features[i], ticket |-> m.ticket,
                             matchConfidence |-> m.confidence,
                             matchReason |-> m.reason]>> \o rest.matches,
              matchedTicketIds |->
                  IF m.ticket # Null /\ m.confidence # "none"
                  THEN rest.matchedTicketIds \cup {m.ticket.id}
                  ELSE rest.matchedTicketIds]

\* the feature loop of matchFeaturesToTickets over features[i..]
RECURSIVE matchLoop(_, _, _, _, _)
matchLoop(features, ticketList, fileKey, i, state) ==
    IF i > Len(features) THEN state
    ELSE matchLoop(features, ticketList, fileKey, i + 1,
             recordMatch(state, features[i],
                 findBestTicketMatch(features[i],
                     availableTickets(ticketList, state.matchedTicketIds),
                     fileKey)))

\* Math.round((matchedCount / total) * 100)
matchPercentage(matchedCount, total) ==
    IF total > 0 THEN RoundRat(Rat(matchedCount * 100, total)) ELSE 0

\* the result record, from the state r the feature loop ends in
\* a summary that counts every match as a matched feature
matchResult_countAllMatches(r, ticketList, total, unmatched) ==
    [matches |-> r.matches,
     unmatchedFeatures |-> [k \in 1..Len(unmatched) |-> unmatched[k].feature],
     unmatchedTickets |-> availableTickets(ticketList, r.matchedTicketIds),
     summary |-> [totalFeatures |-> total,
                  matchedFeatures |-> Len(r.matches),
                  matchPercentage |-> matchPercentage(Len(r.matches), total)]]

matchResult(r, ticketList, total, unmatched) ==
    [matches |-> r.matches,
     unmatchedFeatures |-> [k \in 1..Len(unmatched) |-> unmatched[k].feature],
     unmatchedTickets |-> availableTickets(ticketList, r.matchedTicketIds),
     summary |-> [totalFeatures |-> total,
                  matchedFeatures |-> Len(r.matches) - Len(unmatched),
                  matchPercentage |->
                      matchPercentage(Len(r.matches) - Len(unmatched), total)]]

unmatchedOf(r) == SelectSeq(r.matches, LAMBDA m : m.matchConfidence = "none")

matchResultOf(r, ticketList, total) ==
    matchResult(r, ticketList, total, unmatchedOf(r))

matchFeaturesToTickets(semantic, ticketList, fileKey) ==
    matchResultOf(
        matchLoop(semantic.features, ticketList, fileKey, 1,
                  [matches |-> <<>>, matchedTicketIds |-> {}]),
        ticketList, Len(semantic.features))

----------------------------------------------------------------------------
(* Readiness scorer: analysis/readiness (src/unnamed/part_001) *)

REQUIRED_STATES == <<Chars("Default"), Chars("Hover"), Chars("Disabled")>>

RECOMMENDED_STATES ==
    <<Chars("Active"), Chars("Focus"), Chars("Loading"), Chars("Error"),
      Chars("Selected")>>

RESPONSIVE_INDICATORS ==
    <<Chars("mobile"), Chars("tablet"), Chars("desktop"), Chars("sm"),
      Chars("md"), Chars("lg"), Chars("xl"), Chars("small"),
      Chars("medium"), Chars("large"), Chars("320"), Chars("768"),
      Chars("1024"), Chars("1440")>>

annotationKeywords ==
    <<Chars("note:"), Chars("spec:"), Chars("dev:"), Chars("handoff:"),
      Chars("TODO"), Chars("implementation")>>

\* the literal part of /State=([^,]+)/i, in lower case
StateToken == Chars("state=")

\* length of the longest run of [^,] starting at position i
RECURSIVE NonCommaRun(_, _)
NonCommaRun(s, i) ==
    IF i <= Len(s) /\ s[i] # "," THEN 1 + NonCommaRun(s, i + 1) ELSE 0

\* the positions where /State=([^,]+)/i matches
stateMatchPositions(variant) ==
    With(toLowerCase(variant), LAMBDA lower :
        {i \in 1..Len(variant) :
            /\ MatchesAt(lower, StateToken, i)
            /\ NonCommaRun(variant, i + Len(StateToken)) > 0})

\* stateMatch[1] of the match at position i
stateCapture(variant, i) ==
    SubSeq(variant, i + Len(StateToken),
           i + Len(StateToken) + NonCommaRun(variant, i + Len(StateToken)) - 1)

\* the distinct state values of the variant names
statesOfVariant(variant) ==
    With(stateMatchPositions(variant), LAMBDA positions :
        IF positions = {} THEN {}
        ELSE {trim(stateCapture(variant, Least(positions)))})

extractStates(variants) ==
    UNION {statesOfVariant(variants[k]) : k \in 1..Len(variants)}

hasResponsiveVariantsIn(allText) ==
    \E i \in 1..Len(RESPONSIVE_INDICATORS) :
        includes(allText, toLowerCase(RESPONSIVE_INDICATORS[i]))

\* a breakpoint test that reads the variant names only
hasResponsiveVariants_variantsOnly(variants, nodePaths) ==
    With(toLowerCase(join(variants, <<" ">>)), hasResponsiveVariantsIn)

hasResponsiveVariants(variants, nodePaths) ==
    With(toLowerCase(join(variants \o nodePaths, <<" ">>)),
         hasResponsiveVariantsIn)

\* states.some(s => s.toLowerCase() === state.toLowerCase())
hasState(states, state) ==
    With(toLowerCase(state), LAMBDA wanted :
        \E s \in states : toLowerCase(s) = wanted)

hasRequiredStates(states) ==
    \A i \in 1..Len(REQUIRED_STATES) : hasState(states, REQUIRED_STATES[i])

missingRequired(states) ==
    SelectSeq(REQUIRED_STATES, LAMBDA state : ~hasState(states, state))

hasRecommendedStates(states) ==
    SelectSeq(RECOMMENDED_STATES, LAMBDA state : hasState(states, state))

\* 1. required states, given the missing ones: partial credit and issue
scoreMissingStates(missing) ==
    [score |-> RatMul(Rat(Len(REQUIRED_STATES) - Len(missing),
                          Len(REQUIRED_STATES)), Rat(30, 1)),
     issues |-> IF Len(missing) > 0
                THEN <<Chars("Missing required states: ") \o join(missing, <<",", " ">>)>>
                ELSE <<>>]

scoreRequiredStates(states) ==
    IF hasRequiredStates(states)
    THEN [score |-> Rat(30, 1), issues |-> <<>>]
    ELSE scoreMissingStates(missingRequired(states))

\* bonus for n recommended states
scoreRecommendedStates(acc, n) ==
    IF n > 0
    THEN [score |-> RatAdd(acc.score, Rat(Min(n * 2, 10), 1)), issues |-> acc.issues]
    ELSE acc

nodePathsOf(feature) ==
    [i \in 1..Len(feature.nodeChanges) |-> join(feature.nodeChanges[i].path, <<" ">>)]

hasResponsiveOf(feature) == hasResponsiveVariants(feature.variants, nodePathsOf(feature))

\* a scorer that gives no partial credit when no breakpoint is found
scoreResponsive_noPartialCredit(acc, feature, hasResponsive) ==
    IF hasResponsive
    THEN [score |-> RatAdd(acc.score, Rat(20, 1)), issues |-> acc.issues]
    ELSE [score |-> acc.score,
          issues |-> IF feature.category = "component-set"
                        \/ Len(feature.componentChanges) > 5
                     THEN Append(acc.issues, Chars("No responsive variants detected"))
                     ELSE acc.issues]

\* 2. responsive variants
scoreResponsive(acc, feature, hasResponsive) ==
    IF hasResponsive
    THEN [score |-> RatAdd(acc.score, Rat(20, 1)), issues |-> acc.issues]
    ELSE [score |-> IF feature.category # "component-set"
                    THEN RatAdd(acc.score, Rat(10, 1)) ELSE acc.score,
          issues |-> IF feature.category = "component-set"
                        \/ Len(feature.componentChanges) > 5
                     THEN Append(acc.issues, Chars("No responsive variants detected"))
                     ELSE acc.issues]

\* 3. design token usage: usesTokens is the constant true
scoreTokens(acc) ==
    [score |-> RatAdd(acc.score, Rat(20, 1)), issues |-> acc.issues]

isAnnotationName(nodeName) ==
    \E k \in 1..Len(annotationKeywords) :
        includes(nodeName, toLowerCase(annotationKeywords[k]))

hasAnnotationsOf(feature) ==
    \E i \in 1..Len(feature.nodeChanges) :
        /\ feature.nodeChanges[i].nodeType = Chars("TEXT")
        /\ With(toLowerCase(feature.nodeChanges[i].nodeName), isAnnotationName)

\* 4. annotations
scoreAnnotations(acc, feature, hasAnnotations) ==
    IF hasAnnotations
    THEN [score |-> RatAdd(acc.score, Rat(15, 1)), issues |-> acc.issues]
    ELSE [score |-> RatAdd(acc.score, Rat(5, 1)),
          issues |-> IF feature.category = "component-set"
                     THEN Append(acc.issues, Chars("Consider adding developer annotations"))
                     ELSE acc.issues]

\* 5. prototype connections
scorePrototype(acc, feature) ==
    IF Len(feature.componentChanges) > 3
    THEN [score |-> RatAdd(acc.score, Rat(8, 1)), issues |-> acc.issues]
    ELSE acc

\* the score and the issues after the five checks
readinessScore(feature, states) ==
    With(scoreRequiredStates(states), LAMBDA a1 :
    With(scoreRecommendedStates(a1, Len(hasRecommendedStates(states))), LAMBDA a2 :
    With(scoreResponsive(a2, feature, hasResponsiveOf(feature)), LAMBDA a3 :
    With(scoreTokens(a3), LAMBDA a4 :
    With(scoreAnnotations(a4, feature, hasAnnotationsOf(feature)), LAMBDA a5 :
    scorePrototype(a5, feature))))))

\* a scorer that reports the rounded sum without the upper clamp
overallOf_noClamp(score) == RoundRat(score)

\* Math.min(Math.round(score), 100)
overallOf(score) == Min(RoundRat(score), 100)

componentReadiness(feature, states, acc) ==
    [overall |-> overallOf(acc.score),
     hasAllStates |-> hasRequiredStates(states),
     hasResponsive |-> hasResponsiveOf(feature),
     usesTokens |-> TRUE,
     hasAnnotations |-> hasAnnotationsOf(feature),
     hasPrototype |-> FALSE,
     issues |-> acc.issues]

assessComponentReadiness(feature) ==
    With(extractStates(feature.variants), LAMBDA states :
    With(readinessScore(feature, states), LAMBDA acc :
    componentReadiness(feature, states, acc)))

\* recommendations that follow the four booleans alone
recommendationsOf_perFailedCheck(feature, r) ==
    (IF ~r.hasAllStates
     THEN <<Chars("Add missing interaction states for complete component coverage")>>
     ELSE <<>>)
    \o (IF ~r.hasResponsive
        THEN <<Chars("Consider adding responsive variants for different screen sizes")>>
        ELSE <<>>)
    \o (IF ~r.hasAnnotations
        THEN <<Chars("Add developer annotations to clarify implementation details")>>
        ELSE <<>>)
    \o (IF ~r.hasPrototype
        THEN <<Chars("Create a prototype to demonstrate interaction flows")>>
        ELSE <<>>)

\* the recommendations assessAllFeatures derives from one assessment
recommendationsOf(feature, r) ==
    (IF ~r.hasAllStates
     THEN <<Chars("Add missing interaction states for complete component coverage")>>
     ELSE <<>>)
    \o (IF ~r.hasResponsive /\ feature.category = "component-set"
        THEN <<Chars("Consider adding responsive variants for different screen sizes")>>
        ELSE <<>>)
    \o (IF ~r.hasAnnotations
        THEN <<Chars("Add developer annotations to clarify implementation details")>>
        ELSE <<>>)
    \o (IF ~r.hasPrototype /\ Len(feature.variants) > 5
        THEN <<Chars("Create a prototype to demonstrate interaction flows")>>
        ELSE <<>>)

readinessAssessment(feature, r) ==
    [featureName |-> feature.name, overall |-> r.overall, components |-> <<r>>,
     issues |-> r.issues, recommendations |-> recommendationsOf(feature, r)]

\* the index of the last feature with this name (a later Map.set overwrites)
lastNamed(features, name) ==
    CHOOSE i \in 1..Len(features) :
        /\ features[i].name = name
        /\ \A j \in (i + 1)..Len(features) : features[j].name # name

\* the assessment assessAllFeatures stores for one feature
assessFeature(feature) ==
    With(assessComponentReadiness(feature), LAMBDA r :
    readinessAssessment(feature, r))

\* the Map of assessAllFeatures: an object keyed by the feature name
assessAllFeatures(features) ==
    Obj([name \in {features[i].name : i \in 1..Len(features)} |->
            assessFeature(features[lastNamed(features, name)])])

----------------------------------------------------------------------------
(* Inputs of the ticket matcher *)

\* bounds of the matcher inputs
MaxTickets == 2

MaxFeatures == 2

SeqsUpTo(S, n) == UNION {[1..k -> S] : k \in 0..n}

\* a FeatureGroup of which only the name is set (all the matcher reads)
FeatureNamed(name) ==
    [name |-> name, description |-> <<>>, category |-> "misc",
     changeType |-> "updated",
     changes |-> [added |-> 0, modified |-> 0, removed |-> 0],
     variants |-> <<>>, highlights |-> <<>>, nodeChanges |-> <<>>,
     componentChanges |-> <<>>, path |-> name]

MatchFeatureNames == {Chars("Button"), Chars("Nav Bar"), Chars("Card"), Chars("---")}

\* LinearTicket records; two of them share an id
MatchTicketPool ==
    { [id |-> "T1", title |-> Chars("Primary Button redesign"),
       description |-> Null, labels |-> <<>>, figmaLinks |-> <<>>],
      [id |-> "T2", title |-> Chars("Button"),
       description |-> Str(Chars("Update the button hover state")),
       labels |-> <<[name |-> Chars("button")]>>,
       figmaLinks |-> <<Chars("https://example.com/file/abc123"),
                        Chars("https://www.figma.com/file/abc123/Design-System")>>],
      [id |-> "T3", title |-> Chars("Fix nav bar spacing"),
       description |-> Str(<<>>),
       labels |-> <<[name |-> Chars("Card")], [name |-> Chars("Nav Bar")]>>,
       figmaLinks |-> <<Chars("https://www.figma.com/design/zzz999/Other?node-id=1")>>],
      [id |-> "T4", title |-> Chars("Bar nav redo"),
       description |-> Null, labels |-> <<>>, figmaLinks |-> <<>>],
      [id |-> "T1", title |-> Chars("Card layout"),
       description |-> Str(Chars("Card")), labels |-> <<>>,
       figmaLinks |-> <<Chars("https://www.figma.com/file/abc123/Design-System")>>],
      [id |-> "T5", title |-> Chars("Upgrade build tooling"),
       description |-> Null, labels |-> <<>>, figmaLinks |-> <<>>],
      [id |-> "T6", title |-> Chars("Sprint chores"),
       description |-> Null, labels |-> <<[name |-> Chars("Button")]>>,
       figmaLinks |-> <<Chars("https://www.figma.com/proto/abc123/Design-System")>>],
      [id |-> "T7", title |-> Chars("Card"),
       description |-> Str(Chars("nav menu")), labels |-> <<>>,
       figmaLinks |-> <<>>],
      [id |-> "T8", title |-> Chars("???"),
       description |-> Null, labels |-> <<>>, figmaLinks |-> <<>>] }

MatchFileKeys == {Undefined, Str(Chars("abc123"))}

SemanticDiffOf(features) ==
    [features |-> features,
     summary |-> [featuresWorkedOn |-> Len(features), newFeatures |-> 0,
                  updatedFeatures |-> Len(features), removedFeatures |-> 0,
                  totalChanges |-> 0],
     ungroupedChanges |-> <<>>, styleChanges |-> <<>>]

----------------------------------------------------------------------------
(* Inputs of the readiness scorer *)

\* bound of the number of component changes of an assessed feature
MaxComponentChanges == 6

ReadinessRequiredVariants ==
    <<Chars("State=Default"), Chars("State=Hover"), Chars("State=Disabled")>>

ReadinessRecommendedVariants ==
    <<Chars("State=Focus"), Chars("Type=Primary, State=Active"),
      Chars("Button/State=Loading"), Chars("State= Error , Size=Big"),
      Chars("state=SELECTED")>>

ReadinessVariantLists ==
    {SubSeq(ReadinessRequiredVariants, 1, r)
        \o SubSeq(ReadinessRecommendedVariants, 1, k) :
        r \in 0..Len(ReadinessRequiredVariants),
        k \in 0..Len(ReadinessRecommendedVariants)}
    \cup {<<Chars("Breakpoint=Mobile, State=default")>>,
          ReadinessRequiredVariants \o <<Chars("Breakpoint=Mobile, State=default")>>}

NodeChangeOf(type, nodeId, nodeName, nodeType, path) ==
    [type |-> type, nodeId |-> nodeId, nodeName |-> nodeName,
     nodeType |-> nodeType, path |-> path]

ReadinessNodeChange(type, nodeId, nodeName, nodeType) ==
    NodeChangeOf(type, nodeId, Chars(nodeName), Chars(nodeType),
                 <<Chars("Document"), Chars("Button"), Chars(nodeName)>>)

ReadinessNodeChangeLists ==
    {<<>>,
     <<ReadinessNodeChange("added", "1:2", "Dev: use tokens", "TEXT")>>,
     <<ReadinessNodeChange("added", "1:4", "Spec: sizes", "FRAME"),
       ReadinessNodeChange("removed", "1:5", "Label", "TEXT")>>,
     <<ReadinessNodeChange("modified", "1:3", "Mobile", "FRAME"),
       ReadinessNodeChange("added", "1:1", "Card", "FRAME"),
       ReadinessNodeChange("added", "1:2", "Dev: use tokens", "TEXT")>>}

ComponentChangeOf(type, componentKey, componentName) ==
    [type |-> type, componentKey |-> componentKey, componentName |-> componentName]

FeatureCategories ==
    {"component", "component-set", "page-section", "style", "icon", "layout", "misc"}

\* a FeatureGroup as the scorer reads it
ReadinessFeature(variants, category, nodeChanges, n) ==
    [name |-> Chars("Button"), description |-> <<>>, category |-> category,
     changeType |-> "updated",
     changes |-> [added |-> 0, modified |-> 0, removed |-> 0],
     variants |-> variants, highlights |-> <<>>, nodeChanges |-> nodeChanges,
     componentChanges |->
         [i \in 1..n |-> ComponentChangeOf("modified", ToString(i), Chars("Button"))],
     path |-> Chars("Button")]

----------------------------------------------------------------------------
(* Inputs of the diff engine: snapshots of a small file *)

\* bound of the number of attributes in which the text node of a new
\* snapshot deviates from its base form
MaxDeviations == 2

\* the attributes a snapshot can vary of its text node
Deviations == {"moved", "renamed", "repositioned", "resized", "refilled", "retyped"}

SolidPaint(red) ==
    Arr(<<Obj([type |-> Str(Chars("SOLID")),
               color |-> Obj([r |-> Num(red), g |-> Num(0), b |-> Num(0)])])>>)

BoxOf(x, y, width, height) ==
    Obj([x |-> Num(x), y |-> Num(y), width |-> Num(width), height |-> Num(height)])

\* a FigmaNode without children
LeafNode(id, name, type, box) ==
    [id |-> id, name |-> Chars(name), type |-> Chars(type),
     absoluteBoundingBox |-> box]

\* a FigmaNode with children
ParentNode(id, name, type, children) ==
    [id |-> id, name |-> Chars(name), type |-> Chars(type), children |-> children]

\* the text node "2:1" with the given deviations from its base form
TextNode(deviations) ==
    LeafNode("2:1",
             IF "renamed" \in deviations THEN "Title" ELSE "Label",
             IF "retyped" \in deviations THEN "CANVAS" ELSE "TEXT",
             BoxOf(IF "repositioned" \in deviations THEN 5 ELSE 0, 0,
                   IF "resized" \in deviations THEN 20 ELSE 10, 10))
    @@ [fills |-> SolidPaint(IF "refilled" \in deviations THEN 1 ELSE 0),
        characters |-> Str(Chars("OK")), cornerRadius |-> Num(0)]

\* what a snapshot holds: the page name (empty: the frames are children of
\* the document), the text node (its deviations, or absent), the second
\* component and the revision of the library tables
SnapshotConfigs(maxDeviations, pages) ==
    [page : pages,
     text : {[present |-> FALSE, deviations |-> {}]}
                \cup {[present |-> TRUE, deviations |-> d] :
                        d \in {e \in SUBSET Deviations : Cardinality(e) <= maxDeviations}},
     hover : BOOLEAN,
     revision : {1, 2}]

ComponentEntry(id, key, name, description) ==
    [key |-> id,
     value |-> Obj([key |-> Str(Chars(key)), name |-> Str(Chars(name)),
                    description |-> Str(Chars(description))])]

StyleEntry(id, key, name, styleType, description) ==
    [key |-> id,
     value |-> Obj([key |-> Str(Chars(key)), name |-> Str(Chars(name)),
                    styleType |-> Str(Chars(styleType)),
                    description |-> Str(Chars(description))])]

\* the children of the frame "Button"
ButtonChildren(config) ==
    <<LeafNode("1:3", "Button/State=Default", "COMPONENT", BoxOf(0, 0, 40, 20))>>
    \o (IF config.hover
        THEN <<LeafNode("1:4", "Button/State=Hover", "COMPONENT", BoxOf(50, 0, 40, 20))>>
        ELSE <<>>)
    \o (IF config.text.present /\ "moved" \notin config.text.deviations
        THEN <<TextNode(config.text.deviations)>> ELSE <<>>)

\* the children of the frame "Card"
CardChildren(config) ==
    IF config.text.present /\ "moved" \in config.text.deviations
    THEN <<TextNode(config.text.deviations)>> ELSE <<>>

Frames(config) ==
    <<ParentNode("1:1", "Button", "FRAME", ButtonChildren(config)),
      ParentNode("1:2", "Card", "FRAME", CardChildren(config))>>

DocumentOf(config) ==
    ParentNode("0:0", "Document", "DOCUMENT",
               IF config.page = ""
               THEN Frames(config)
               ELSE <<ParentNode("0:1", config.page, "CANVAS", Frames(config))>>)

\* a FigmaFileResponse
Snapshot(config) ==
    [name |-> Chars("Design System"),
     document |-> DocumentOf(config),
     components |->
         <<ComponentEntry("1:3", "c1", "Button/State=Default",
                          IF config.revision = 1 THEN "" ELSE "Resting state")>>
         \o (IF config.hover
             THEN <<ComponentEntry("1:4", "c2", "Button/State=Hover", "")>>
             ELSE <<>>),
     styles |->
         (IF config.revision = 1
          THEN <<StyleEntry("S:1", "s1", "Brand/Red", "FILL", "")>>
          ELSE <<StyleEntry("S:1", "s1", "Brand/Primary", "FILL", ""),
                 StyleEntry("S:2", "s2", "Body", "TEXT", "")>>)]

\* a file that shares no node id, component key or style key with a Snapshot
UnrelatedSnapshot ==
    [name |-> Chars("Other"),
     document |->
         ParentNode("9:0", "Document", "DOCUMENT",
             <<ParentNode("9:1", "Page 1", "CANVAS",
                   <<LeafNode("9:2", "Rectangle 1", "RECTANGLE", BoxOf(0, 0, 5, 5)),
                     LeafNode("9:3", "Hero", "FRAME", BoxOf(0, 0, 90, 50))>>)>>),
     components |-> <<>>,
     styles |-> <<StyleEntry("S:9", "s9", "Shadow", "EFFECT", "")>>]

\* a FigmaVersion of the version history
VersionNamed(id) == [id |-> id, created_at |-> "2024-01-01T00:00:00Z", label |-> Null]

\* the injective arrays of at most n elements of S
DistinctSeqsUpTo(S, n) ==
    {s \in SeqsUpTo(S, n) : \A i, j \in 1..Len(s) : i # j => s[i] # s[j]}

DiffOldSnapshots ==
    {Snapshot(config) : config \in SnapshotConfigs(1, {"Page 1"})}
        \cup {UnrelatedSnapshot}

DiffNewSnapshots ==
    {Snapshot(config) : config \in SnapshotConfigs(MaxDeviations, {"Page 1"})}
        \cup {UnrelatedSnapshot}

----------------------------------------------------------------------------
(* Inputs of the semantic grouper: DiffResults with any node changes *)

\* bound of the number of node changes of a grouped DiffResult
MaxNodeChanges == 3

GroupNodeChange(type, nodeId, nodeName, nodeType, path) ==
    NodeChangeOf(type, nodeId, Chars(nodeName), Chars(nodeType),
                 <<Chars("Document")>> \o path \o <<Chars(nodeName)>>)

\* NodeChanges of distinct nodes: noise, noise by name only, noise by type
\* only, under a noise-named parent, named Ungrouped, under a page, under a
\* frame named Document
GroupNodeChangePool ==
    {GroupNodeChange("added", "1:1", "Vector", "VECTOR", <<Chars("Button")>>),
     GroupNodeChange("added", "1:2", "Frame 12", "FRAME", <<>>),
     GroupNodeChange("modified", "1:3", "Icon", "VECTOR",
                     <<Chars("Group 3"), Chars("Icons")>>),
     GroupNodeChange("removed", "1:4", "Label", "TEXT", <<Chars("Button")>>),
     GroupNodeChange("renamed", "1:5", "Ungrouped", "FRAME", <<>>),
     GroupNodeChange("added", "1:6", "Button/State=Hover", "COMPONENT",
                     <<Chars("Button")>>),
     GroupNodeChange("added", "1:7", "Card", "COMPONENT_SET", <<Chars("Page 1")>>),
     GroupNodeChange("added", "1:8", "line 4", "LINE", <<Chars("Button")>>),
     GroupNodeChange("renamed", "1:9", "Field", "TEXT",
                     <<Chars("Frame 1"), Chars("Document"), Chars("Button")>>)}

GroupComponentChange(type, componentKey, componentName) ==
    ComponentChangeOf(type, componentKey, Chars(componentName))

GroupComponentChangeLists ==
    {<<>>,
     <<GroupComponentChange("added", "1:6", "Button/State=Hover")>>,
     <<GroupComponentChange("added", "3:1", "Icon/Home"),
       GroupComponentChange("modified", "3:2", "button")>>,
     <<GroupComponentChange("added", "3:5", ""),
       GroupComponentChange("removed", "3:3", "Nav/Item"),
       GroupComponentChange("removed", "3:4", "/Size=Small")>>,
     [i \in 1..6 |->
        GroupComponentChange("added", ToString(i),
                             "Card/Type=Big, State=Default, Size=Wide 2")]}

GroupDiffResult(nodeChanges, componentChanges) ==
    diffResultOf(nodeChanges, componentChanges, <<>>, VersionNamed("1"),
                 VersionNamed("2"), Chars("Design System"))

----------------------------------------------------------------------------
(* Inputs of the grouper: the changes of one frame *)

\* bound of the number of node changes under the frame
MaxSectionNodes == 11

\* bound of the number of component changes of the frame
MaxSectionComponents == 6

SectionNames == {"Icons", "Text Styles", "Brand COLORS", "Checkout", "Button"}

\* the node type of the first changed node (the others are text nodes)
SectionNodeTypes == {"TEXT", "COMPONENT", "COMPONENT_SET"}

\* n added nodes under the frame
SectionNodeChanges(name, n, firstType) ==
    [i \in 1..n |->
        GroupNodeChange("added", "5:" \o ToString(i), "Item " \o ToString(i),
                        IF i = 1 THEN firstType ELSE "TEXT", <<Chars(name)>>)]

\* n modified components of the frame
SectionComponentChanges(name, n) ==
    [i \in 1..n |->
        GroupComponentChange("modified", "6:" \o ToString(i),
                             name \o "/Kind=" \o ToString(i))]

----------------------------------------------------------------------------
(* Inputs of the pipeline *)

\* page names of the scenario files: no page, an ordinary page, a page named
\* like the frame, a page with a noise name
PipelinePages == {"", "Page 1", "Button", "Frame 1"}

PipelineTickets ==
    <<[id |-> "T1", title |-> Chars("Primary Button redesign"),
       description |-> Null, labels |-> <<>>, figmaLinks |-> <<>>],
      [id |-> "T2", title |-> Chars("Card layout"),
       description |-> Str(Chars("Card")), labels |-> <<[name |-> Chars("Page 1")]>>,
       figmaLinks |-> <<Chars("https://www.figma.com/file/abc123/Design-System")>>]>>

----------------------------------------------------------------------------
(* The pipeline of code.ts; pc names the stage that runs next *)

\* diffResult = diffFiles(oldFile, newFile, oldVersion, newVersion)
DiffFiles ==
    /\ pc = "diff"
    /\ diffResult' = diffFiles(oldFile, newFile, oldVersion, newVersion)
    /\ pc' = "group"
    /\ UNCHANGED <<oldFile, newFile, oldVersion, newVersion, semanticDiff,
                   readinessAssessments, tickets, figmaFileKey, ticketMatches>>

\* semanticDiff = groupChangesSemanticaly(diffResult)
GroupChanges ==
    /\ pc = "group"
    /\ semanticDiff' = groupChangesSemanticaly(diffResult)
    /\ pc' = "assess"
    /\ UNCHANGED <<oldFile, newFile, oldVersion, newVersion, diffResult,
                   readinessAssessments, tickets, figmaFileKey, ticketMatches>>

\* ticketMatches = matchFeaturesToTickets(semanticDiff, tickets, fileKey)
MatchFeaturesToTickets ==
    /\ pc = "match"
    /\ ticketMatches' = matchFeaturesToTickets(semanticDiff, tickets, figmaFileKey)
    /\ pc' = "done"
    /\ UNCHANGED <<oldFile, newFile, oldVersion, newVersion, diffResult,
                   semanticDiff, readinessAssessments, tickets, figmaFileKey>>

\* readinessAssessments = assessAllFeatures(semanticDiff.features, newFile)
AssessAllFeatures ==
    /\ pc = "assess"
    /\ readinessAssessments' = assessAllFeatures(semanticDiff.features)
    /\ pc' = "match"
    /\ UNCHANGED <<oldFile, newFile, oldVersion, newVersion, diffResult,
                   semanticDiff, tickets, figmaFileKey, ticketMatches>>

\* the scorer called on any FeatureGroup
InitReadiness ==
    /\ pc = "assess"
    /\ oldFile = Undefined
    /\ newFile = Undefined
    /\ oldVersion = Undefined
    /\ newVersion = Undefined
    /\ diffResult = Undefined
    /\ readinessAssessments = Undefined
    /\ ticketMatches = Undefined
    /\ tickets = <<>>
    /\ figmaFileKey = Undefined
    /\ \E variants \in ReadinessVariantLists, category \in FeatureCategories,
          nodeChanges \in ReadinessNodeChangeLists,
          n \in 0..MaxComponentChanges :
           semanticDiff =
               SemanticDiffOf(<<ReadinessFeature(variants, category, nodeChanges, n)>>)

NextReadiness == AssessAllFeatures

SpecReadiness == InitReadiness /\ [][NextReadiness]_vars

\* matchFeaturesToTickets called on any feature list and any ticket list
InitMatch ==
    /\ pc = "match"
    /\ oldFile = Undefined
    /\ newFile = Undefined
    /\ oldVersion = Undefined
    /\ newVersion = Undefined
    /\ diffResult = Undefined
    /\ readinessAssessments = Undefined
    /\ ticketMatches = Undefined
    /\ \E names \in SeqsUpTo(MatchFeatureNames, MaxFeatures) :
           semanticDiff =
               SemanticDiffOf([i \in 1..Len(names) |-> FeatureNamed(names[i])])
    /\ tickets \in SeqsUpTo(MatchTicketPool, MaxTickets)
    /\ figmaFileKey \in MatchFileKeys

NextMatch == MatchFeaturesToTickets

SpecMatch == InitMatch /\ [][NextMatch]_vars

\* diffFiles called on two snapshots
InitDiff ==
    /\ pc = "diff"
    /\ oldFile \in DiffOldSnapshots
    /\ newFile \in DiffNewSnapshots
    /\ oldVersion = VersionNamed("1")
    /\ newVersion = VersionNamed("2")
    /\ diffResult = Undefined
    /\ semanticDiff = Undefined
    /\ readinessAssessments = Undefined
    /\ ticketMatches = Undefined
    /\ tickets = <<>>
    /\ figmaFileKey = Undefined

NextDiff == DiffFiles

SpecDiff == InitDiff /\ [][NextDiff]_vars

\* groupChangesSemanticaly called on any DiffResult
InitGroup ==
    /\ pc = "group"
    /\ oldFile = Undefined
    /\ newFile = Undefined
    /\ oldVersion = Undefined
    /\ newVersion = Undefined
    /\ \E nodeChanges \in DistinctSeqsUpTo(GroupNodeChangePool, MaxNodeChanges),
          componentChanges \in GroupComponentChangeLists :
           diffResult = GroupDiffResult(nodeChanges, componentChanges)
    /\ semanticDiff = Undefined
    /\ readinessAssessments = Undefined
    /\ ticketMatches = Undefined
    /\ tickets = <<>>
    /\ figmaFileKey = Undefined

NextGroup == GroupChanges

SpecGroup == InitGroup /\ [][NextGroup]_vars

\* groupChangesSemanticaly called on the changes of one frame
InitCategory ==
    /\ pc = "group"
    /\ oldFile = Undefined
    /\ newFile = Undefined
    /\ oldVersion = Undefined
    /\ newVersion = Undefined
    /\ \E name \in SectionNames, n \in 0..MaxSectionNodes,
          firstType \in SectionNodeTypes, c \in {0, 1, MaxSectionComponents} :
           diffResult = GroupDiffResult(SectionNodeChanges(name, n, firstType),
                                        SectionComponentChanges(name, c))
    /\ semanticDiff = Undefined
    /\ readinessAssessments = Undefined
    /\ ticketMatches = Undefined
    /\ tickets = <<>>
    /\ figmaFileKey = Undefined

NextCategory == GroupChanges

SpecCategory == InitCategory /\ [][NextCategory]_vars

\* the analysis run of code.ts on two versions of one file
Init ==
    /\ pc = "diff"
    /\ \E page \in PipelinePages :
           /\ oldFile \in {Snapshot(config) : config \in SnapshotConfigs(0, {page})}
           /\ newFile \in {Snapshot(config) : config \in SnapshotConfigs(1, {page})}
    /\ oldVersion = VersionNamed("1")
    /\ newVersion = VersionNamed("2")
    /\ diffResult = Undefined
    /\ semanticDiff = Undefined
    /\ readinessAssessments = Undefined
    /\ ticketMatches = Undefined
    /\ tickets = PipelineTickets
    /\ figmaFileKey = Str(Chars("abc123"))

Next ==
    \/ DiffFiles
    \/ GroupChanges
    \/ AssessAllFeatures
    \/ MatchFeaturesToTickets

Spec == Init /\ [][Next]_vars

----------------------------------------------------------------------------
(* Properties *)

MatchDone == pc = "done" /\ ticketMatches # Undefined

\* C1: in the result of matchFeaturesToTickets no two matches with a
\* non-null ticket carry the same ticket id.
C1_NoTicketAssignedTwice ==
    MatchDone =>
        \A i, j \in 1..Len(ticketMatches.matches) :
            (/\ i < j
             /\ ticketMatches.matches[i].ticket # Null
             /\ ticketMatches.matches[j].ticket # Null)
            => ticketMatches.matches[i].ticket.id # ticketMatches.matches[j].ticket.id

\* two features with the same name were matched, the first took the best
\* ticket and the second got a different one
C1_Witness ==
    /\ MatchDone
    /\ Len(ticketMatches.matches) = 2
    /\ ticketMatches.matches[1].feature.name = ticketMatches.matches[2].feature.name
    /\ ticketMatches.matches[1].ticket # Null
    /\ ticketMatches.matches[2].ticket # Null
    /\ ticketMatches.matches[1].ticket.id = "T2"

ScenarioTicket ==
    [id |-> "T1", title |-> Chars("Primary Button redesign"), description |-> Null,
     labels |-> <<>>, figmaLinks |-> <<>>]

ScenarioTicketInput ==
    /\ MatchDone
    /\ Len(semanticDiff.features) = 1
    /\ semanticDiff.features[1].name = Chars("Button")
    /\ tickets = <<ScenarioTicket>>

\* C8: the ticket "Primary Button redesign" (no link, description or labels)
\* matched against the single feature "Button" is referenced by the match,
\* with confidence low and reason `Title match: "Primary Button redesign"`.
C8_ScenarioTitleMatchLow ==
    ScenarioTicketInput =>
        /\ Len(ticketMatches.matches) = 1
        /\ ticketMatches.matches[1].ticket = ScenarioTicket
        /\ ticketMatches.matches[1].matchConfidence = "low"
        /\ ticketMatches.matches[1].matchReason = Chars("Title match: \"Primary Button redesign\"")

C8_Witness ==
    /\ ScenarioTicketInput
    /\ ticketMatches.matches[1].matchConfidence = "low"

\* the tickets whose id no feature before the i-th was matched to
PoolBefore(i) ==
    SelectSeq(tickets, LAMBDA t :
        \A j \in 1..(i - 1) :
            \/ ticketMatches.matches[j].ticket = Null
            \/ ticketMatches.matches[j].ticket.id # t.id)

\* the match the i-th feature gets from the tickets in `pool`
MatchOver(i, pool) == findBestTicketMatch(semanticDiff.features[i], pool, figmaFileKey)

\* C11: matching is greedy in feature order.  The i-th match is the one of
\* the i-th feature of semanticDiff.features, it is the best match among the
\* tickets whose id no earlier feature was matched to, and when an earlier
\* and a later feature would pick the same ticket from the tickets left, the
\* earlier one gets it and the later one gets another ticket or none.
C11_GreedyInFeatureOrder ==
    MatchDone =>
        /\ Len(ticketMatches.matches) = Len(semanticDiff.features)
        /\ \A i \in 1..Len(ticketMatches.matches) :
               /\ ticketMatches.matches[i].feature = semanticDiff.features[i]
               /\ ticketMatches.matches[i].ticket = MatchOver(i, PoolBefore(i)).ticket
               /\ ticketMatches.matches[i].matchConfidence
                      = MatchOver(i, PoolBefore(i)).confidence
        /\ \A i, j \in 1..Len(ticketMatches.matches) :
               (/\ i < j
                /\ MatchOver(i, PoolBefore(i)).ticket # Null
                /\ MatchOver(j, PoolBefore(i)).ticket = MatchOver(i, PoolBefore(i)).ticket)
               => /\ ticketMatches.matches[i].ticket = MatchOver(i, PoolBefore(i)).ticket
                  /\ \/ ticketMatches.matches[j].ticket = Null
                     \/ ticketMatches.matches[j].ticket.id
                            # ticketMatches.matches[i].ticket.id

\* two features with different names contend for the same ticket; the first
\* gets it and the second gets its best match among the other tickets
C11_Witness ==
    /\ MatchDone
    /\ Len(ticketMatches.matches) = 2
    /\ semanticDiff.features[1].name # semanticDiff.features[2].name
    /\ MatchOver(1, tickets).ticket # Null
    /\ MatchOver(2, tickets).ticket = MatchOver(1, tickets).ticket
    /\ ticketMatches.matches[1].ticket = MatchOver(1, tickets).ticket
    /\ ticketMatches.matches[2].ticket # Null

\* the best candidate of the i-th feature among the tickets left for it
BestBefore(i) ==
    bestTicketLoop(semanticDiff.features[i], PoolBefore(i), figmaFileKey, 1,
                   [bestMatch |-> Null, bestScore |-> Rat(0, 1), bestReason |-> <<>>])

\* the confidence tier of a score
TierOf(s) ==
    IF RatGE(s, Rat(7, 10)) THEN "high"
    ELSE IF RatGE(s, Rat(4, 10)) THEN "medium"
    ELSE IF RatGT(s, Rat(1, 10)) THEN "low"
    ELSE "none"

\* the best candidate b of the i-th feature was not taken out of the pool
StaysAvailable(i, b) ==
    /\ \A j \in (i + 1)..Len(ticketMatches.matches) :
           \/ \E k \in 1..Len(PoolBefore(j)) : PoolBefore(j)[k] = b
           \/ \E k \in (i + 1)..(j - 1) :
                  /\ ticketMatches.matches[k].ticket # Null
                  /\ ticketMatches.matches[k].ticket.id = b.id
    /\ \/ \E k \in 1..Len(ticketMatches.unmatchedTickets) :
              ticketMatches.unmatchedTickets[k] = b
       \/ \E k \in (i + 1)..Len(ticketMatches.matches) :
              /\ ticketMatches.matches[k].ticket # Null
              /\ ticketMatches.matches[k].ticket.id = b.id

\* C12: the confidence of a match is the tier of the best ticket's score
\* (>= 0.7 high, >= 0.4 medium, > 0.1 low, else none); a match of tier none
\* carries no ticket and its best-scoring ticket stays in the pool of every
\* later feature and ends in unmatchedTickets unless a later feature takes it;
\* a match of another tier carries the best-scoring ticket.
C12_ConfidenceTiers ==
    MatchDone =>
        \A i \in 1..Len(ticketMatches.matches) :
            /\ ticketMatches.matches[i].matchConfidence = TierOf(BestBefore(i).bestScore)
            /\ IF ticketMatches.matches[i].matchConfidence = "none"
               THEN /\ ticketMatches.matches[i].ticket = Null
                    /\ BestBefore(i).bestMatch # Null
                           => StaysAvailable(i, BestBefore(i).bestMatch)
               ELSE ticketMatches.matches[i].ticket = BestBefore(i).bestMatch

\* the first feature's best ticket scores exactly 0.1 and is discarded; the
\* second feature is then matched to that ticket
C12_Witness ==
    /\ MatchDone
    /\ Len(ticketMatches.matches) = 2
    /\ BestBefore(1).bestMatch # Null
    /\ BestBefore(1).bestScore = Rat(1, 10)
    /\ ticketMatches.matches[1].matchConfidence = "none"
    /\ ticketMatches.matches[2].ticket = BestBefore(1).bestMatch

Assessed == pc = "match" /\ readinessAssessments # Undefined

AssessedFeature == semanticDiff.features[1]

\* the ComponentReadiness of the assessed feature
AssessedReadiness == readinessAssessments.v[AssessedFeature.name].components[1]

\* C6: assessComponentReadiness returns an integer overall score with
\* 0 <= overall <= 100 for every feature group.
C6_OverallWithinRange ==
    Assessed =>
        \A name \in DOMAIN readinessAssessments.v :
            /\ readinessAssessments.v[name].components[1].overall \in 0..100
            /\ readinessAssessments.v[name].overall \in 0..100

\* every sub-score is at its maximum (the sum is 103) and 100 is reported
C6_Witness ==
    /\ Assessed
    /\ AssessedReadiness.hasAllStates
    /\ AssessedReadiness.hasResponsive
    /\ AssessedReadiness.hasAnnotations
    /\ Len(AssessedFeature.variants) >= 8
    /\ Len(AssessedFeature.componentChanges) > 3
    /\ AssessedReadiness.overall = 100

ScenarioReadinessInput ==
    /\ Assessed
    /\ AssessedFeature.category = "component"
    /\ AssessedFeature.variants =
           <<Chars("State=Default"), Chars("State=Hover"),
             Chars("State=Disabled"), Chars("State=Focus")>>
    /\ ~AssessedReadiness.hasResponsive
    /\ ~AssessedReadiness.hasAnnotations
    /\ Len(AssessedFeature.componentChanges) <= 3

\* C9: a component feature with the variants State=Default, State=Hover,
\* State=Disabled and State=Focus, no breakpoint substring, no annotation
\* and at most 3 component changes scores 30 + 2 + 10 + 20 + 5 + 0 = 67.
C9_ScenarioScore67 ==
    ScenarioReadinessInput => AssessedReadiness.overall = 67

C9_Witness ==
    /\ ScenarioReadinessInput
    /\ AssessedFeature.nodeChanges # <<>>
    /\ AssessedReadiness.hasAllStates
    /\ AssessedReadiness.overall = 67

\* diffFiles has returned
Diffed == pc = "group" /\ oldFile # Undefined

\* C3: diffing a snapshot against itself (same tree, same component and
\* style tables) yields no node, component or style change and
\* summary.totalChanges = 0.
C3_SelfDiffEmpty ==
    (Diffed /\ oldFile = newFile) =>
        /\ diffResult.nodeChanges = <<>>
        /\ diffResult.componentChanges = <<>>
        /\ diffResult.styleChanges = <<>>
        /\ diffResult.summary.totalChanges = 0

\* a snapshot with paints, a bounding box, components and styles was diffed
\* against itself
C3_Witness ==
    /\ Diffed
    /\ oldFile = newFile
    /\ \E i \in 1..Len(flattenNodes(oldFile.document, <<>>)) :
           "fills" \in DOMAIN flattenNodes(oldFile.document, <<>>)[i].node
    /\ Len(oldFile.components) = 2
    /\ oldFile.styles # <<>>
    /\ diffResult.summary.totalChanges = 0

\* the nodes of a tree
RECURSIVE NodesOf(_)
NodesOf(node) ==
    {node} \cup
        (IF "children" \in DOMAIN node
         THEN UNION {NodesOf(node.children[i]) : i \in 1..Len(node.children)}
         ELSE {})

IdsOf(file) == {node.id : node \in NodesOf(file.document)}

\* the nodes of a tree that are not document or canvas containers
ReportableNodes(file) ==
    {node \in NodesOf(file.document) :
        node.type \notin {Chars("DOCUMENT"), Chars("CANVAS")}}

\* the NodeChanges of the diff that carry an id
ChangesOfId(id) ==
    {i \in 1..Len(diffResult.nodeChanges) : diffResult.nodeChanges[i].nodeId = id}

\* the id has exactly one NodeChange, and it is of the type
HasOneChange(id, type) ==
    /\ Cardinality(ChangesOfId(id)) = 1
    /\ \A i \in ChangesOfId(id) : diffResult.nodeChanges[i].type = type

\* C4: every id only in the new snapshot (not a document or canvas node)
\* has exactly one NodeChange, of type added; every id only in the old
\* snapshot has exactly one, of type removed; no id is both added and removed.
C4_AddedRemovedOnce ==
    Diffed =>
        /\ \A node \in ReportableNodes(newFile) :
               node.id \notin IdsOf(oldFile) => HasOneChange(node.id, "added")
        /\ \A node \in ReportableNodes(oldFile) :
               node.id \notin IdsOf(newFile) => HasOneChange(node.id, "removed")
        /\ \A i, j \in 1..Len(diffResult.nodeChanges) :
               (/\ diffResult.nodeChanges[i].type = "added"
                /\ diffResult.nodeChanges[j].type = "removed")
               => diffResult.nodeChanges[i].nodeId # diffResult.nodeChanges[j].nodeId

\* one node was added, another removed, and a third one is in both snapshots
C4_Witness ==
    /\ Diffed
    /\ "1:4" \in IdsOf(newFile) \ IdsOf(oldFile)
    /\ "2:1" \in IdsOf(oldFile) \ IdsOf(newFile)
    /\ "1:3" \in IdsOf(oldFile) \cap IdsOf(newFile)
    /\ HasOneChange("1:4", "added")
    /\ HasOneChange("2:1", "removed")

\* the node of a file that has the id
NodeOfId(file, id) == CHOOSE node \in NodesOf(file.document) : node.id = id

\* the names of the ancestors of the node with the id, from the root down
AncestorPath(file, id) ==
    LET path == infoOf(flattenNodes(file.document, <<>>), id).path
    IN  SubSeq(path, 1, Len(path) - 1)

\* the id is in both snapshots with another projection or another
\* ancestor path
ChangedInPlace(id) ==
    /\ id \in IdsOf(oldFile) \cap IdsOf(newFile)
    /\ \/ getComparableProperties(NodeOfId(oldFile, id))
              # getComparableProperties(NodeOfId(newFile, id))
       \/ AncestorPath(oldFile, id) # AncestorPath(newFile, id)

\* the ids of the nodes that are a document or canvas container in neither
\* snapshot
ReportableIds ==
    {node.id : node \in ReportableNodes(oldFile) \cup ReportableNodes(newFile)}
        \ {node.id : node \in (NodesOf(oldFile.document) \cup NodesOf(newFile.document))
                                  \ (ReportableNodes(oldFile) \cup ReportableNodes(newFile))}

\* C5: diffFiles emits exactly one NodeChange for each id that was added,
\* removed, or is in both snapshots with a differing projection or a
\* differing ancestor path, and none for an id with zero delta (document
\* and canvas nodes left aside).
C5_OneChangePerChangedNode ==
    Diffed =>
        \A id \in ReportableIds :
            Cardinality(ChangesOfId(id)) =
                IF \/ id \notin IdsOf(oldFile)
                   \/ id \notin IdsOf(newFile)
                   \/ ChangedInPlace(id)
                THEN 1 ELSE 0

\* C10: for two snapshots that share no node id, diffFiles returns with
\* one added change per reportable node of the new tree, one removed change
\* per reportable node of the old tree, and no other change.
C10_UnrelatedAllAddedAllRemoved ==
    (Diffed /\ IdsOf(oldFile) \cap IdsOf(newFile) = {}) =>
        /\ \A node \in ReportableNodes(newFile) : HasOneChange(node.id, "added")
        /\ \A node \in ReportableNodes(oldFile) : HasOneChange(node.id, "removed")
        /\ Len(diffResult.nodeChanges) =
               Cardinality(ReportableNodes(newFile))
                   + Cardinality(ReportableNodes(oldFile))
        /\ \A i \in 1..Len(diffResult.nodeChanges) :
               diffResult.nodeChanges[i].type \in {"added", "removed"}

\* a file was diffed against an unrelated one; both have reportable nodes
\* and a canvas
C10_Witness ==
    /\ Diffed
    /\ IdsOf(oldFile) \cap IdsOf(newFile) = {}
    /\ diffResult.summary.nodesAdded = 2
    /\ diffResult.summary.nodesRemoved >= 3
    /\ diffResult.summary.nodesAdded + diffResult.summary.nodesRemoved
           = Len(diffResult.nodeChanges)

\* the ids that are in both snapshots
SharedIds == IdsOf(oldFile) \cap IdsOf(newFile)

\* the projected properties in which the two versions of the id differ
ChangedProperties(id) ==
    LET before == getComparableProperties(NodeOfId(oldFile, id))
        after == getComparableProperties(NodeOfId(newFile, id))
    IN  {key \in DOMAIN before \cup DOMAIN after :
            \/ key \notin DOMAIN before
            \/ key \notin DOMAIN after
            \/ before[key] # after[key]}

\* the id has another ancestor path in the new snapshot
HasMoved(id) == AncestorPath(oldFile, id) # AncestorPath(newFile, id)

\* C13: a node in both snapshots with an unchanged projection and another
\* ancestor path has one NodeChange, of type moved.
C13_MovedOnlyReportedMoved ==
    Diffed =>
        \A id \in SharedIds \cap ReportableIds :
            (ChangedProperties(id) = {} /\ HasMoved(id)) => HasOneChange(id, "moved")

\* the id is in both snapshots with another name and another ancestor path
\* and no other projected property changed
RenamedAndMoved(id) ==
    /\ id \in SharedIds \cap ReportableIds
    /\ ChangedProperties(id) = {"name"}
    /\ HasMoved(id)

\* C14 as stated: a node renamed and moved at once has one NodeChange, of
\* type modified.
C14_RenamedAndMovedIsModified ==
    Diffed =>
        \A id \in SharedIds : RenamedAndMoved(id) => HasOneChange(id, "modified")

\* C14 amended: a node renamed and moved at once has one NodeChange, of type
\* renamed (the name is its only changed property), carrying the new path.
C14_RenamedAndMovedIsRenamed ==
    Diffed =>
        \A id \in SharedIds :
            RenamedAndMoved(id) =>
                /\ HasOneChange(id, "renamed")
                /\ \A i \in ChangesOfId(id) :
                       diffResult.nodeChanges[i].path
                           = Append(AncestorPath(newFile, id), NodeOfId(newFile, id).name)

\* the text node was renamed and moved from one frame to the other
C14_Witness ==
    /\ Diffed
    /\ RenamedAndMoved("2:1")
    /\ HasOneChange("2:1", "renamed")

\* the type the rule gives for a non-empty set of changed properties
RuleType(changed) == IF changed = {"name"} THEN "renamed" ELSE "modified"

\* C15: for a node in both snapshots with a non-empty list of changed
\* projection properties, the NodeChange is of type renamed if and only if
\* the list is exactly `name`, and of type modified for any other list; the
\* node has one NodeChange (a document or canvas node aside).
C15_RenamedIffOnlyName ==
    Diffed =>
        \A id \in SharedIds :
            ChangedProperties(id) # {} =>
                /\ \A i \in ChangesOfId(id) :
                       diffResult.nodeChanges[i].type = RuleType(ChangedProperties(id))
                /\ id \in ReportableIds => Cardinality(ChangesOfId(id)) = 1

\* the text node changed its name and its size and is reported as modified
C15_Witness ==
    /\ Diffed
    /\ "2:1" \in SharedIds
    /\ ChangedProperties("2:1") = {"name", "size"}
    /\ HasOneChange("2:1", "modified")

\* the two versions of the id differ in the x/y of the bounding box only
\* and have the same ancestor path
OnlyRepositioned(id) ==
    /\ id \in SharedIds
    /\ ~HasMoved(id)
    /\ "absoluteBoundingBox" \in DOMAIN NodeOfId(oldFile, id)
    /\ "absoluteBoundingBox" \in DOMAIN NodeOfId(newFile, id)
    /\ LET before == NodeOfId(oldFile, id)
           after == NodeOfId(newFile, id)
       IN  /\ before # after
           /\ before.absoluteBoundingBox.v.width = after.absoluteBoundingBox.v.width
           /\ before.absoluteBoundingBox.v.height = after.absoluteBoundingBox.v.height
           /\ [after EXCEPT !.absoluteBoundingBox = before.absoluteBoundingBox] = before

\* C16: a node in both snapshots that differs in the x/y position of its
\* bounding box only, under the same ancestors, has no NodeChange.
C16_RepositioningNotReported ==
    Diffed => \A id \in SharedIds : OnlyRepositioned(id) => ChangesOfId(id) = {}

\* the text node was repositioned and the diff holds no change of it
C16_Witness ==
    /\ Diffed
    /\ OnlyRepositioned("2:1")
    /\ ChangesOfId("2:1") = {}

\* groupChangesSemanticaly has returned
Grouped == pc \in {"assess", "match", "done"} /\ diffResult # Undefined

\* the NodeChanges held by the feature groups and the ungrouped bucket
HeldNodeChanges ==
    Flatten([i \in 1..Len(semanticDiff.features) |-> semanticDiff.features[i].nodeChanges])
        \o semanticDiff.ungroupedChanges

\* in how many places a NodeChange is held
Placements(change) ==
    Cardinality({i \in 1..Len(HeldNodeChanges) : HeldNodeChanges[i] = change})

\* noise: noise-named and noise-typed
IsNoiseChange(change) == isNoiseName(change.nodeName) /\ isNoiseType(change.nodeType)

\* C2: the NodeChanges held by the returned feature groups together with
\* ungroupedChanges are exactly the NodeChanges of the diff that are not
\* noise, each of them held in exactly one place.
C2_PartitionLaw ==
    Grouped =>
        /\ \A k \in 1..Len(diffResult.nodeChanges) :
               Placements(diffResult.nodeChanges[k]) =
                   IF IsNoiseChange(diffResult.nodeChanges[k]) THEN 0 ELSE 1
        /\ \A i \in 1..Len(HeldNodeChanges) :
               \E k \in 1..Len(diffResult.nodeChanges) :
                   HeldNodeChanges[i] = diffResult.nodeChanges[k]

\* of three changes one was dropped as noise, one went to the ungrouped
\* bucket and one to a feature group
C2_Witness ==
    /\ Grouped
    /\ Len(diffResult.nodeChanges) = 3
    /\ \E k \in 1..3 : IsNoiseChange(diffResult.nodeChanges[k])
    /\ Len(semanticDiff.ungroupedChanges) = 1
    /\ \E i \in 1..Len(semanticDiff.features) :
           Len(semanticDiff.features[i].nodeChanges) = 1
    /\ Len(HeldNodeChanges) = 2

\* strings of one or two digits
DigitStrings ==
    {<<a>> : a \in DigitChars} \cup {<<a, b>> : a \in DigitChars, b \in DigitChars}

\* the lower-case names the generic-shape patterns accept: the bare words
\* and the numbered words ("rectangle 1" ... "group 99")
ShapeNames ==
    {Chars(word) : word \in {"vector", "image", "intersect", "union", "subtract"}}
    \cup {Chars(word) \o <<" ">> \o digits :
              word \in {"rectangle", "ellipse", "line", "frame", "group"},
              digits \in DigitStrings}

NamedLikeShape(name) == toLowerCase(name) \in ShapeNames

\* the noise-type set
ShapeTypes ==
    {Chars(type) : type \in {"VECTOR", "BOOLEAN_OPERATION", "LINE",
                              "REGULAR_POLYGON", "STAR", "SLICE"}}

\* the NodeChange of the diff for the node id (the ids of a diff differ)
ChangeOfNode(id) ==
    diffResult.nodeChanges[CHOOSE k \in 1..Len(diffResult.nodeChanges) :
                               diffResult.nodeChanges[k].nodeId = id]

HasChangeOfNode(id) ==
    \E k \in 1..Len(diffResult.nodeChanges) : diffResult.nodeChanges[k].nodeId = id

\* C17: a NodeChange is dropped by groupChangesSemanticaly (held by no
\* feature group and not by the ungrouped bucket) if and only if its node
\* name matches a generic-shape pattern and its node type is in the
\* noise-type set; every other NodeChange is kept.
C17_NoiseDroppedIffNameAndType ==
    Grouped =>
        \A k \in 1..Len(diffResult.nodeChanges) :
            (Placements(diffResult.nodeChanges[k]) = 0)
                <=> (/\ NamedLikeShape(diffResult.nodeChanges[k].nodeName)
                     /\ diffResult.nodeChanges[k].nodeType \in ShapeTypes)

\* the frame "Frame 12" and the vector "Icon" are kept, the vector "Vector"
\* is dropped
C17_Witness ==
    /\ Grouped
    /\ HasChangeOfNode("1:1") /\ HasChangeOfNode("1:2") /\ HasChangeOfNode("1:3")
    /\ Placements(ChangeOfNode("1:1")) = 0
    /\ Placements(ChangeOfNode("1:2")) = 1
    /\ Placements(ChangeOfNode("1:3")) = 1

\* the feature groups that hold the NodeChange
FeaturesHolding(change) ==
    {i \in 1..Len(semanticDiff.features) :
        \E k \in 1..Len(semanticDiff.features[i].nodeChanges) :
            semanticDiff.features[i].nodeChanges[k] = change}

InBucket(change) ==
    \E k \in 1..Len(semanticDiff.ungroupedChanges) :
        semanticDiff.ungroupedChanges[k] = change

FeaturesNamed(name) ==
    {i \in 1..Len(semanticDiff.features) : semanticDiff.features[i].name = name}

\* the change is held by the one feature group named segments[1], or by the
\* ungrouped bucket when no segment is left or the first is a bucket name
FiledUnder(change, segments, bucketNames) ==
    IF segments = <<>> \/ segments[1] \in bucketNames
    THEN InBucket(change) /\ FeaturesHolding(change) = {}
    ELSE /\ ~InBucket(change)
         /\ Cardinality(FeaturesNamed(segments[1])) = 1
         /\ FeaturesHolding(change) = FeaturesNamed(segments[1])

\* the path without its first segment and its noise-named segments
SegmentsAfterRoot(path) == SelectSeq(Tail(path), LAMBDA p : ~NamedLikeShape(p))

\* the path without the segments named Document and the noise-named ones
SegmentsKept(path) ==
    SelectSeq(path, LAMBDA p : p # Chars("Document") /\ ~NamedLikeShape(p))

\* C18 as stated: every retained NodeChange is filed under the feature
\* named by the first segment left after removing the document-root segment
\* and the noise-named segments, or in the ungrouped bucket if none is left.
C18_KeyAfterRootSegment ==
    Grouped =>
        \A k \in 1..Len(diffResult.nodeChanges) :
            Placements(diffResult.nodeChanges[k]) > 0 =>
                FiledUnder(diffResult.nodeChanges[k],
                           SegmentsAfterRoot(diffResult.nodeChanges[k].path), {})

\* C18 amended: every retained NodeChange is filed under the one feature
\* named by the first segment left after removing every segment named
\* "Document" and every noise-named segment; it goes to the ungrouped
\* bucket if none is left or if that segment is "Ungrouped".
C18_KeyWithoutDocumentSegments ==
    Grouped =>
        \A k \in 1..Len(diffResult.nodeChanges) :
            Placements(diffResult.nodeChanges[k]) > 0 =>
                FiledUnder(diffResult.nodeChanges[k],
                           SegmentsKept(diffResult.nodeChanges[k].path),
                           {Chars("Ungrouped")})

\* the text under Button and the field under Frame 1 > Document > Button
\* are in one group "Button"; the frame named Ungrouped is in the bucket
C18_Witness ==
    /\ Grouped
    /\ HasChangeOfNode("1:4") /\ HasChangeOfNode("1:9") /\ HasChangeOfNode("1:5")
    /\ FeaturesHolding(ChangeOfNode("1:4")) = FeaturesNamed(Chars("Button"))
    /\ FeaturesHolding(ChangeOfNode("1:9")) = FeaturesNamed(Chars("Button"))
    /\ Cardinality(FeaturesNamed(Chars("Button"))) = 1
    /\ InBucket(ChangeOfNode("1:5"))

\* does the text a contain the text b
Contains(a, b) ==
    \E i \in 0..(Len(a) - Len(b)) : SubSeq(a, i + 1, i + Len(b)) = b

\* the text of a component name before its first "/"
TextBeforeSlash(name) ==
    IF \E i \in 1..Len(name) : name[i] = "/"
    THEN SubSeq(name, 1, (CHOOSE i \in 1..Len(name) :
                             /\ name[i] = "/"
                             /\ \A j \in 1..(i - 1) : name[j] # "/") - 1)
    ELSE name

\* the names of the features the node changes create, in creation order
RECURSIVE CreatedByNodes(_, _)
CreatedByNodes(changes, names) ==
    IF changes = <<>> THEN names
    ELSE CreatedByNodes(Tail(changes),
             IF \/ (NamedLikeShape(changes[1].nodeName) /\ changes[1].nodeType \in ShapeTypes)
                \/ SegmentsKept(changes[1].path) = <<>>
                \/ SegmentsKept(changes[1].path)[1] = Chars("Ungrouped")
                \/ \E i \in 1..Len(names) : names[i] = SegmentsKept(changes[1].path)[1]
             THEN names
             ELSE Append(names, SegmentsKept(changes[1].path)[1]))

\* the existing features whose name contains the candidate or is contained
\* in it, letter case ignored
Overlapping(names, candidate) ==
    {i \in 1..Len(names) :
        \/ Contains(toLowerCase(names[i]), toLowerCase(candidate))
        \/ Contains(toLowerCase(candidate), toLowerCase(names[i]))}

\* the feature a candidate goes to: the first overlapping feature, or the
\* feature keyed by the candidate; with skipUnnamed a first overlapping
\* feature of the empty name is passed over for the candidate
TargetAmong(names, candidate, skipUnnamed) ==
    IF Overlapping(names, candidate) = {} THEN candidate
    ELSE IF skipUnnamed /\ names[Least(Overlapping(names, candidate))] = <<>>
    THEN candidate
    ELSE names[Least(Overlapping(names, candidate))]

\* the candidate of a component name: the text before the first "/"; with
\* wholeNameIfEmpty the whole name stands in when that text is empty
CandidateOf(name, wholeNameIfEmpty) ==
    IF wholeNameIfEmpty /\ TextBeforeSlash(name) = <<>> THEN name
    ELSE TextBeforeSlash(name)

\* the feature names the component changes go to, one after the other
RECURSIVE ExpectedTargets(_, _, _)
ExpectedTargets(names, componentChanges, asInCode) ==
    IF componentChanges = <<>> THEN <<>>
    ELSE With(TargetAmong(names,
                  CandidateOf(componentChanges[1].componentName, asInCode), asInCode),
              LAMBDA target :
                  <<target>>
                  \o ExpectedTargets(
                         IF \E i \in 1..Len(names) : names[i] = target
                         THEN names ELSE Append(names, target),
                         Tail(componentChanges), asInCode))

\* the feature groups that hold the ComponentChange
ComponentHolders(change) ==
    {i \in 1..Len(semanticDiff.features) :
        \E k \in 1..Len(semanticDiff.features[i].componentChanges) :
            semanticDiff.features[i].componentChanges[k] = change}

\* every ComponentChange is held once, by the one feature group of its target
PlacedAt(targets) ==
    \A k \in 1..Len(diffResult.componentChanges) :
        /\ Cardinality(FeaturesNamed(targets[k])) = 1
        /\ ComponentHolders(diffResult.componentChanges[k]) = FeaturesNamed(targets[k])
        /\ \A i \in FeaturesNamed(targets[k]) :
               Cardinality({j \in 1..Len(semanticDiff.features[i].componentChanges) :
                               semanticDiff.features[i].componentChanges[j]
                                   = diffResult.componentChanges[k]}) = 1

\* C19 as stated: each ComponentChange is in exactly one feature group: the
\* first existing feature (in creation order) whose name contains the text
\* before the first "/" of the component name or is contained in it, letter
\* case ignored, else the feature keyed by that text.
C19_ComponentByTextBeforeSlash ==
    Grouped =>
        PlacedAt(ExpectedTargets(CreatedByNodes(diffResult.nodeChanges, <<>>),
                                 diffResult.componentChanges, FALSE))

\* C19 amended: the candidate is the text before the first "/", or the whole
\* component name when that text is empty; the change goes to the first
\* existing feature overlapping the candidate unless that feature has the
\* empty name, and else to the feature keyed by the candidate.
C19_ComponentByCandidate ==
    Grouped =>
        PlacedAt(ExpectedTargets(CreatedByNodes(diffResult.nodeChanges, <<>>),
                                 diffResult.componentChanges, TRUE))

\* "button" was merged into the feature "Button" the node changes created
\* and "Icon/Home" went to a new feature "Icon"
C19_Witness ==
    /\ Grouped
    /\ HasChangeOfNode("1:4")
    /\ ~HasChangeOfNode("1:3")
    /\ Len(diffResult.componentChanges) = 2
    /\ diffResult.componentChanges[2].componentName = Chars("button")
    /\ ComponentHolders(diffResult.componentChanges[2]) = FeaturesNamed(Chars("Button"))
    /\ ComponentHolders(diffResult.componentChanges[1]) = FeaturesNamed(Chars("Icon"))
    /\ Cardinality(FeaturesNamed(Chars("Icon"))) = 1
    /\ Cardinality(FeaturesNamed(Chars("Button"))) = 1

\* how many changes of a list have one of the types
CountOf(changes, types) ==
    Cardinality({k \in 1..Len(changes) : changes[k].type \in types})

\* the changeType the rule gives for the counts and the component changes
RuleChangeType(added, modified, removed, componentChanges) ==
    IF removed > added /\ removed > modified THEN "removed"
    ELSE IF /\ added > modified
            /\ added > 0
            /\ 2 * CountOf(componentChanges, {"added"}) > Len(componentChanges)
    THEN "new"
    ELSE "updated"

\* the counts of a feature group, renamed node changes counted as modified
CountsOf(feature) ==
    [added |-> CountOf(feature.nodeChanges, {"added"})
                   + CountOf(feature.componentChanges, {"added"}),
     modified |-> CountOf(feature.nodeChanges, {"modified", "renamed"})
                      + CountOf(feature.componentChanges, {"modified"}),
     removed |-> CountOf(feature.nodeChanges, {"removed"})
                     + CountOf(feature.componentChanges, {"removed"})]

\* C20: the counts of a feature group are those of its node and component
\* changes (renamed counted as modified) and its changeType is removed when
\* removed > added and removed > modified, otherwise new when
\* added > modified, added > 0 and more than half of its component changes
\* are additions, otherwise updated.
C20_ChangeTypeFromCounts ==
    Grouped =>
        \A i \in 1..Len(semanticDiff.features) :
            /\ semanticDiff.features[i].changes = CountsOf(semanticDiff.features[i])
            /\ semanticDiff.features[i].changeType =
                   RuleChangeType(CountsOf(semanticDiff.features[i]).added,
                                  CountsOf(semanticDiff.features[i]).modified,
                                  CountsOf(semanticDiff.features[i]).removed,
                                  semanticDiff.features[i].componentChanges)

\* a group with one added component change and one renamed node change is
\* updated, next to a group that is new
C20_Witness ==
    /\ Grouped
    /\ \E i \in 1..Len(semanticDiff.features) :
           /\ CountOf(semanticDiff.features[i].nodeChanges, {"renamed"}) = 1
           /\ semanticDiff.features[i].changes = [added |-> 1, modified |-> 1, removed |-> 0]
           /\ Len(semanticDiff.features[i].componentChanges) = 1
           /\ semanticDiff.features[i].changeType = "updated"
    /\ \E j \in 1..Len(semanticDiff.features) :
           /\ semanticDiff.features[j].changeType = "updated"
           /\ semanticDiff.features[j].changes.added > semanticDiff.features[j].changes.modified

\* the snapshot with the frame "Button" and its component State=Default,
\* with or without the component State=Hover
ButtonSnapshot(page, revision, hover) ==
    Snapshot([page |-> page, text |-> [present |-> FALSE, deviations |-> {}],
              hover |-> hover, revision |-> revision])

\* the new snapshot adds the sibling component "Button/State=Hover" and its
\* component-table entry, the frame being on one of the pages
ScenarioButtonInput(pages) ==
    /\ Grouped
    /\ \E page \in pages, revision \in {1, 2} :
           /\ oldFile = ButtonSnapshot(page, revision, FALSE)
           /\ newFile = ButtonSnapshot(page, revision, TRUE)

\* one added NodeChange and one added ComponentChange, both in a single
\* FeatureGroup "Button" of category component and changeType new
ScenarioButtonOutcome ==
    /\ Len(diffResult.nodeChanges) = 1
    /\ diffResult.nodeChanges[1].type = "added"
    /\ Len(diffResult.componentChanges) = 1
    /\ diffResult.componentChanges[1].type = "added"
    /\ Len(semanticDiff.features) = 1
    /\ semanticDiff.features[1].name = Chars("Button")
    /\ semanticDiff.features[1].nodeChanges = diffResult.nodeChanges
    /\ semanticDiff.features[1].componentChanges = diffResult.componentChanges
    /\ semanticDiff.features[1].category = "component"
    /\ semanticDiff.features[1].changeType = "new"

NameHas(name, word) == Contains(toLowerCase(name), Chars(word))

HasNodeOfType(feature, type) ==
    \E k \in 1..Len(feature.nodeChanges) : feature.nodeChanges[k].nodeType = Chars(type)

\* the first category rule that applies to a feature group
RuleCategory(feature) ==
    CASE HasNodeOfType(feature, "COMPONENT_SET") \/ Len(feature.componentChanges) > 5
             -> "component-set"
      [] OTHER ->
    CASE NameHas(feature.name, "icon") -> "icon"
      [] OTHER ->
    CASE Len(feature.componentChanges) > 0 \/ HasNodeOfType(feature, "COMPONENT")
             -> "component"
      [] OTHER ->
    CASE NameHas(feature.name, "style") \/ NameHas(feature.name, "color") -> "style"
      [] OTHER ->
    CASE Len(feature.nodeChanges) > 10 -> "page-section"
      [] OTHER -> "misc"

\* C21: the category of a feature group is the first rule that applies of
\* component-set (a COMPONENT_SET node change or more than 5 component
\* changes), icon (name contains "icon"), component (a component change or
\* a COMPONENT node change), style (name contains "style" or "color"),
\* page-section (more than 10 node changes), misc; "Icons" with 6 component
\* changes is component-set and with 1 component change is icon.
C21_CategoryFirstRule ==
    Grouped =>
        \A i \in 1..Len(semanticDiff.features) :
            /\ semanticDiff.features[i].category = RuleCategory(semanticDiff.features[i])
            /\ semanticDiff.features[i].name = Chars("Icons") =>
                   /\ Len(semanticDiff.features[i].componentChanges) = 6
                          => semanticDiff.features[i].category = "component-set"
                   /\ (/\ Len(semanticDiff.features[i].componentChanges) = 1
                       /\ ~HasNodeOfType(semanticDiff.features[i], "COMPONENT_SET"))
                          => semanticDiff.features[i].category = "icon"

\* the group "Icons" with one component change and a COMPONENT node change
\* is of category icon
C21_Witness ==
    /\ Grouped
    /\ Len(semanticDiff.features) = 1
    /\ semanticDiff.features[1].name = Chars("Icons")
    /\ Len(semanticDiff.features[1].componentChanges) = 1
    /\ HasNodeOfType(semanticDiff.features[1], "COMPONENT")
    /\ semanticDiff.features[1].category = "icon"

\* added + modified + removed of the i-th returned feature group
VolumeAt(i) ==
    semanticDiff.features[i].changes.added + semanticDiff.features[i].changes.modified
        + semanticDiff.features[i].changes.removed

IsNewAt(i) == semanticDiff.features[i].changeType = "new"

\* C22: in the returned features every group of changeType new precedes
\* every group of another changeType, and among the new groups and among the
\* other groups the change volume added + modified + removed never
\* increases along the list.
C22_NewFirstThenByVolume ==
    Grouped =>
        \A i, j \in 1..Len(semanticDiff.features) :
            i < j =>
                /\ IsNewAt(j) => IsNewAt(i)
                /\ (IsNewAt(i) <=> IsNewAt(j)) => VolumeAt(i) >= VolumeAt(j)

\* a new group of volume 1 stands before two other groups, the first of
\* them of a larger volume than the second
C22_Witness ==
    /\ Grouped
    /\ Len(semanticDiff.features) = 3
    /\ IsNewAt(1) /\ ~IsNewAt(2) /\ ~IsNewAt(3)
    /\ VolumeAt(1) < VolumeAt(2)
    /\ VolumeAt(2) > VolumeAt(3)

\* the breakpoint indicator substrings
BreakpointIndicators ==
    {Chars(word) : word \in {"mobile", "tablet", "desktop", "sm", "md", "lg", "xl",
                              "small", "medium", "large", "320", "768", "1024", "1440"}}

\* a variant name or a node path segment of the feature contains an indicator
HasBreakpointText(feature) ==
    \E indicator \in BreakpointIndicators :
        \/ \E i \in 1..Len(feature.variants) :
               Contains(toLowerCase(feature.variants[i]), indicator)
        \/ \E i \in 1..Len(feature.nodeChanges) :
               \E k \in 1..Len(feature.nodeChanges[i].path) :
                   Contains(toLowerCase(feature.nodeChanges[i].path[k]), indicator)

\* the points of the checks other than the responsive one
PointsBesideResponsive(feature) ==
    With(extractStates(feature.variants), LAMBDA states :
        scorePrototype(
            scoreAnnotations(
                scoreTokens(
                    scoreRecommendedStates(scoreRequiredStates(states),
                                           Len(hasRecommendedStates(states)))),
                feature, hasAnnotationsOf(feature)),
            feature).score)

\* the reported score is the one with these responsive points
HasResponsivePoints(points) ==
    AssessedReadiness.overall
        = Min(RoundRat(RatAdd(PointsBesideResponsive(AssessedFeature), Rat(points, 1))), 100)

HasIssue(text) ==
    \E k \in 1..Len(AssessedReadiness.issues) : AssessedReadiness.issues[k] = Chars(text)

\* C23 as stated: 20 responsive points with a breakpoint indicator in a
\* variant name or node path; without one 10 points, unless the category is
\* component-set and there are more than 5 component changes, then 0 points
\* and the issue "No responsive variants detected".
C23_ResponsivePartialUnlessLargeSet ==
    Assessed =>
        IF HasBreakpointText(AssessedFeature)
        THEN HasResponsivePoints(20) /\ ~HasIssue("No responsive variants detected")
        ELSE IF /\ AssessedFeature.category = "component-set"
                /\ Len(AssessedFeature.componentChanges) > 5
        THEN HasResponsivePoints(0) /\ HasIssue("No responsive variants detected")
        ELSE HasResponsivePoints(10) /\ ~HasIssue("No responsive variants detected")

\* C23 amended: 20 responsive points with a breakpoint indicator; without
\* one, 10 points unless the category is component-set (then 0 points), and
\* the issue "No responsive variants detected" exactly when the category is
\* component-set or there are more than 5 component changes.
C23_ResponsivePartialUnlessSet ==
    Assessed =>
        IF HasBreakpointText(AssessedFeature)
        THEN HasResponsivePoints(20) /\ ~HasIssue("No responsive variants detected")
        ELSE /\ HasResponsivePoints(IF AssessedFeature.category = "component-set"
                                    THEN 0 ELSE 10)
             /\ HasIssue("No responsive variants detected")
                    <=> \/ AssessedFeature.category = "component-set"
                        \/ Len(AssessedFeature.componentChanges) > 5

\* a component-set with two component changes and no breakpoint indicator
\* gets no responsive points and the issue
C23_Witness ==
    /\ Assessed
    /\ ~HasBreakpointText(AssessedFeature)
    /\ AssessedFeature.category = "component-set"
    /\ Len(AssessedFeature.componentChanges) = 2
    /\ HasResponsivePoints(0)
    /\ ~HasResponsivePoints(10)
    /\ HasIssue("No responsive variants detected")

AssessedIssues == readinessAssessments.v[AssessedFeature.name].issues

AssessedRecommendations == readinessAssessments.v[AssessedFeature.name].recommendations

\* the number of recorded issues that begin with this text
IssuesStarting(text) ==
    Cardinality({k \in 1..Len(AssessedIssues) :
        /\ Len(AssessedIssues[k]) >= Len(Chars(text))
        /\ SubSeq(AssessedIssues[k], 1, Len(Chars(text))) = Chars(text)})

\* the number of recorded recommendations with this text
RecommendationsSaying(text) ==
    Cardinality({k \in 1..Len(AssessedRecommendations) :
        AssessedRecommendations[k] = Chars(text)})

StatesIssues == IssuesStarting("Missing required states: ")

ResponsiveIssues == IssuesStarting("No responsive variants detected")

AnnotationIssues == IssuesStarting("Consider adding developer annotations")

\* the issues that belong to none of the three other checks
PrototypeIssues == Len(AssessedIssues) - StatesIssues - ResponsiveIssues - AnnotationIssues

StatesRecommendations ==
    RecommendationsSaying("Add missing interaction states for complete component coverage")

ResponsiveRecommendations ==
    RecommendationsSaying("Consider adding responsive variants for different screen sizes")

AnnotationRecommendations ==
    RecommendationsSaying("Add developer annotations to clarify implementation details")

PrototypeRecommendations ==
    RecommendationsSaying("Create a prototype to demonstrate interaction flows")

\* one entry when the condition holds, none otherwise
OneIff(count, condition) == count = (IF condition THEN 1 ELSE 0)

\* C24 as stated: for each of the checks required states, responsive,
\* annotations and prototype, an issue is recorded exactly when the check's
\* boolean is false, and so is a recommendation; a passing check yields
\* neither.
C24_IssueAndRecommendationPerFailedCheck ==
    Assessed =>
        /\ OneIff(StatesIssues, ~AssessedReadiness.hasAllStates)
        /\ OneIff(StatesRecommendations, ~AssessedReadiness.hasAllStates)
        /\ OneIff(ResponsiveIssues, ~AssessedReadiness.hasResponsive)
        /\ OneIff(ResponsiveRecommendations, ~AssessedReadiness.hasResponsive)
        /\ OneIff(AnnotationIssues, ~AssessedReadiness.hasAnnotations)
        /\ OneIff(AnnotationRecommendations, ~AssessedReadiness.hasAnnotations)
        /\ OneIff(PrototypeIssues, ~AssessedReadiness.hasPrototype)
        /\ OneIff(PrototypeRecommendations, ~AssessedReadiness.hasPrototype)

\* C24 amended: a passing check yields neither an issue nor a
\* recommendation; a failed required-states check yields both; a failed
\* responsive check yields the issue when the category is component-set or
\* there are more than 5 component changes and the recommendation when the
\* category is component-set; a failed annotations check yields the issue
\* when the category is component-set and the recommendation always; the
\* prototype check always fails, never yields an issue and yields the
\* recommendation when the feature has more than 5 variants.
C24_IssueAndRecommendationByCategory ==
    Assessed =>
        /\ OneIff(StatesIssues, ~AssessedReadiness.hasAllStates)
        /\ OneIff(StatesRecommendations, ~AssessedReadiness.hasAllStates)
        /\ OneIff(ResponsiveIssues,
                  /\ ~AssessedReadiness.hasResponsive
                  /\ \/ AssessedFeature.category = "component-set"
                     \/ Len(AssessedFeature.componentChanges) > 5)
        /\ OneIff(ResponsiveRecommendations,
                  /\ ~AssessedReadiness.hasResponsive
                  /\ AssessedFeature.category = "component-set")
        /\ OneIff(AnnotationIssues,
                  /\ ~AssessedReadiness.hasAnnotations
                  /\ AssessedFeature.category = "component-set")
        /\ OneIff(AnnotationRecommendations, ~AssessedReadiness.hasAnnotations)
        /\ ~AssessedReadiness.hasPrototype
        /\ PrototypeIssues = 0
        /\ OneIff(PrototypeRecommendations, Len(AssessedFeature.variants) > 5)

\* a feature of category component that fails the responsive, annotations
\* and prototype checks without any issue and with the annotation
\* recommendation only
C24_Witness ==
    /\ Assessed
    /\ AssessedFeature.category = "component"
    /\ AssessedReadiness.hasAllStates
    /\ ~AssessedReadiness.hasResponsive
    /\ ~AssessedReadiness.hasAnnotations
    /\ ~AssessedReadiness.hasPrototype
    /\ Len(AssessedFeature.variants) > 5
    /\ Len(AssessedIssues) = 0
    /\ AssessedRecommendations
          = <<Chars("Add developer annotations to clarify implementation details"),
              Chars("Create a prototype to demonstrate interaction flows")>>

\* the tokens of a normalized text: its maximal runs without a space
WordsOf(text) ==
    {SubSeq(text, i, j) : <<i, j>> \in
        {<<i, j>> \in (1..Len(text)) \X (1..Len(text)) :
            /\ i <= j
            /\ \A k \in i..j : text[k] # " "
            /\ i = 1 \/ text[i - 1] = " "
            /\ j = Len(text) \/ text[j + 1] = " "}}

\* the shared tokens longer than 2 characters over the larger token set
OverlapRatio(aWords, bWords) ==
    Rat(Cardinality({w \in aWords \cap bWords : Len(w) > 2}),
        Max(Cardinality(aWords), Cardinality(bWords)))

\* the similarity of two normalized texts that are not both empty
SimilarityRule(aNorm, bNorm) ==
    IF aNorm = bNorm THEN Rat(1, 1)
    ELSE IF Contains(aNorm, bNorm) \/ Contains(bNorm, aNorm) THEN Rat(8, 10)
    ELSE OverlapRatio(WordsOf(aNorm), WordsOf(bNorm))

\* the similarity with the value 0 for two texts that normalize to nothing
SimilarityZeroOnEmpty(a, b) ==
    IF normalize(a) = <<>> /\ normalize(b) = <<>>
    THEN Rat(0, 1)
    ELSE SimilarityRule(normalize(a), normalize(b))

\* the file key equals the key parsed from one of the ticket's links
LinksFile(ticket) ==
    /\ figmaFileKey # Undefined
    /\ figmaFileKey.v # <<>>
    /\ \E k \in 1..Len(ticket.figmaLinks) :
           extractFileKeyFromUrl(ticket.figmaLinks[k]) = figmaFileKey

HasDescription(ticket) == ticket.description # Null /\ ticket.description.v # <<>>

\* the score of a (feature, ticket) pair as the sum of its four terms
ScoreBy(Sim(_, _), feature, ticket) ==
    LET linkTerm == IF LinksFile(ticket) THEN Rat(5, 10) ELSE Rat(0, 1)
        titleSim == Sim(feature.name, ticket.title)
        titleTerm == IF RatGT(titleSim, Rat(5, 10))
                     THEN RatMul(titleSim, Rat(3, 10)) ELSE Rat(0, 1)
        descSim == IF HasDescription(ticket)
                   THEN Sim(feature.name, ticket.description.v) ELSE Rat(0, 1)
        descTerm == IF HasDescription(ticket) /\ RatGT(descSim, Rat(3, 10))
                    THEN RatMul(descSim, Rat(2, 10)) ELSE Rat(0, 1)
        labelTerm == IF \E k \in 1..Len(ticket.labels) :
                            RatGT(Sim(feature.name, ticket.labels[k].name), Rat(6, 10))
                     THEN Rat(2, 10) ELSE Rat(0, 1)
    IN  RatAdd(RatAdd(linkTerm, titleTerm), RatAdd(descTerm, labelTerm))

\* the scores of the tickets left for the i-th feature
ScoresBy(Sim(_, _), i) ==
    {ScoreBy(Sim, semanticDiff.features[i], PoolBefore(i)[k]) : k \in 1..Len(PoolBefore(i))}

\* the highest of them, 0 when no ticket is left
HighestBy(Sim(_, _), i) ==
    IF ScoresBy(Sim, i) = {} THEN Rat(0, 1)
    ELSE CHOOSE s \in ScoresBy(Sim, i) : \A t \in ScoresBy(Sim, i) : RatGE(s, t)

\* the i-th match carries a ticket of the highest score, or none when that
\* score is in the tier none, and the confidence is the tier of that score
MatchedBy(Sim(_, _), i) ==
    /\ ticketMatches.matches[i].matchConfidence = TierOf(HighestBy(Sim, i))
    /\ IF TierOf(HighestBy(Sim, i)) = "none"
       THEN ticketMatches.matches[i].ticket = Null
       ELSE /\ \E k \in 1..Len(PoolBefore(i)) :
                   PoolBefore(i)[k] = ticketMatches.matches[i].ticket
            /\ ScoreBy(Sim, semanticDiff.features[i], ticketMatches.matches[i].ticket)
                   = HighestBy(Sim, i)

\* C25: similarity(a, b) is 1.0 when the normalized strings are equal, 0.8
\* when one contains the other, otherwise the number of shared tokens longer
\* than 2 characters over the larger token set size, and 0 when both strings
\* are empty after normalization; every match is the one these values give.
C25_SimilarityZeroWhenBothEmpty ==
    MatchDone =>
        \A i \in 1..Len(ticketMatches.matches) : MatchedBy(SimilarityZeroOnEmpty, i)

\* C26: the score of a (feature, ticket) pair is 0.5 for a link to the
\* file, plus title similarity x 0.3 when above 0.5, plus description
\* similarity x 0.2 when there is a description and it is above 0.3, plus
\* 0.2 once when a label has similarity above 0.6; the chosen ticket is one
\* with the highest score among the tickets still available.
C26_ScoreIsSumOfTerms ==
    MatchDone =>
        \A i \in 1..Len(ticketMatches.matches) : MatchedBy(similarity, i)

\* a ticket with link, title, description and label terms (0.5 + 0.3 + 0.16
\* + 0.2) is chosen over a ticket with a title term only
C26_Witness ==
    /\ MatchDone
    /\ Len(ticketMatches.matches) = 1
    /\ Len(tickets) = 2
    /\ ScoreBy(similarity, semanticDiff.features[1], tickets[1]) = Rat(24, 100)
    /\ ScoreBy(similarity, semanticDiff.features[1], tickets[2]) = Rat(116, 100)
    /\ ticketMatches.matches[1].ticket = tickets[2]
    /\ ticketMatches.matches[1].matchConfidence = "high"

\* the title similarity the matcher computes for the first feature and ticket
ScenarioTitleSimilarity == similarity(semanticDiff.features[1].name, tickets[1].title)

\* the score the matcher computes for the first feature and ticket
ScenarioTitleTerm == ticketScore(semanticDiff.features[1], tickets[1], figmaFileKey).score

\* C27 as stated: for the feature "Button" and the ticket title "Primary
\* Button redesign" the title similarity is the token-overlap ratio 1/2 and
\* the title term contributes 0.5 x 0.3 = 0.15 to the score.
C27_TitleSimilarityHalf ==
    ScenarioTicketInput =>
        /\ ScenarioTitleSimilarity = Rat(1, 2)
        /\ ScenarioTitleTerm = Rat(15, 100)

\* C27 amended: for the feature "Button" and the ticket title "Primary
\* Button redesign" the title similarity is 0.8, by containment of "button"
\* in "primary button redesign", the title term contributes 0.8 x 0.3 = 0.24
\* and the match has confidence low.
C27_TitleSimilarityByContainment ==
    ScenarioTicketInput =>
        /\ Contains(normalize(tickets[1].title), normalize(semanticDiff.features[1].name))
        /\ ScenarioTitleSimilarity = Rat(8, 10)
        /\ ScenarioTitleTerm = Rat(24, 100)
        /\ ticketMatches.matches[1].matchConfidence = TierOf(Rat(24, 100))

\* the scenario ran and its title term is the only term of the score
C27_Witness ==
    /\ ScenarioTicketInput
    /\ ScenarioTitleTerm = RatMul(ScenarioTitleSimilarity, Rat(3, 10))
    /\ ticketMatches.matches[1].ticket = ScenarioTicket

\* the ids of the input tickets that are not among the unmatched tickets
TicketIdsTaken ==
    {tickets[k].id : k \in 1..Len(tickets)}
        \ {ticketMatches.unmatchedTickets[k].id :
               k \in 1..Len(ticketMatches.unmatchedTickets)}

\* C29: matchFeaturesToTickets returns exactly one TicketMatch per input
\* feature, in feature order; a match has a null ticket exactly when its
\* confidence is none; matchedFeatures plus the number of unmatched features
\* is totalFeatures; and matchedFeatures is the number of distinct input
\* ticket ids that are absent from unmatchedTickets.
C29_OneMatchPerFeatureAndCounts ==
    MatchDone =>
        /\ Len(ticketMatches.matches) = Len(semanticDiff.features)
        /\ \A i \in 1..Len(ticketMatches.matches) :
               /\ ticketMatches.matches[i].feature = semanticDiff.features[i]
               /\ ticketMatches.matches[i].ticket = Null
                      <=> ticketMatches.matches[i].matchConfidence = "none"
        /\ ticketMatches.summary.totalFeatures = Len(semanticDiff.features)
        /\ ticketMatches.summary.matchedFeatures + Len(ticketMatches.unmatchedFeatures)
               = ticketMatches.summary.totalFeatures
        /\ ticketMatches.summary.matchedFeatures = Cardinality(TicketIdsTaken)

\* two tickets share an id: one feature takes the first of them, the other
\* feature is left without a ticket, and neither ticket is reported unmatched
C29_Witness ==
    /\ MatchDone
    /\ Len(ticketMatches.matches) = 2
    /\ Len(tickets) = 2
    /\ tickets[1] # tickets[2]
    /\ tickets[1].id = tickets[2].id
    /\ ticketMatches.matches[1].ticket = tickets[1]
    /\ ticketMatches.matches[2].ticket = Null
    /\ ticketMatches.matches[2].matchConfidence = "none"
    /\ ticketMatches.unmatchedTickets = <<>>
    /\ ticketMatches.unmatchedFeatures = <<semanticDiff.features[2]>>
    /\ ticketMatches.summary.matchedFeatures = 1

\* C28: a feature group with no component changes is never classified new,
\* whatever its node changes are.
C28_NoComponentsNeverNew ==
    Grouped =>
        \A i \in 1..Len(semanticDiff.features) :
            Len(semanticDiff.features[i].componentChanges) = 0
                => semanticDiff.features[i].changeType # "new"

\* a group made of added nodes only is classified updated
C28_Witness ==
    /\ Grouped
    /\ \E i \in 1..Len(semanticDiff.features) :
           /\ Len(semanticDiff.features[i].componentChanges) = 0
           /\ Len(semanticDiff.features[i].nodeChanges) > 0
           /\ \A k \in 1..Len(semanticDiff.features[i].nodeChanges) :
                  semanticDiff.features[i].nodeChanges[k].type = "added"
           /\ semanticDiff.features[i].changeType = "updated"

\* the node types of the reported node changes
ReportedNodeTypes ==
    {diffResult.nodeChanges[k].nodeType : k \in 1..Len(diffResult.nodeChanges)}

\* C30: no NodeChange of diffFiles has the node type DOCUMENT or CANVAS,
\* also when a node keeps its id and has another type in the new snapshot
\* than in the old one.
C30_NoDocumentOrCanvasChange ==
    Diffed =>
        \A type \in ReportedNodeTypes :
            type \notin {Chars("DOCUMENT"), Chars("CANVAS")}

====
